---- MODULE Spec2Model ----
(***************************************************************************)
(* query-to-tickers: the resolution pipeline of src/lib/extract-tickers.ts *)
(* (entity parser, matcher, geography prioritizer, grouping) and the stock *)
(* cache of stock-cache.ts, as a state machine.                            *)
(*                                                                         *)
(* JavaScript strings are modelled as sequences of one-character strings,  *)
(* so that toLowerCase, includes, endsWith, split and the regular          *)
(* expressions of the source are computed, not assumed.  An absent         *)
(* (undefined) optional string is the empty sequence: the source only ever *)
(* tests such fields for truthiness, and "" and undefined are both falsy.  *)
(***************************************************************************)
EXTENDS Integers, Sequences, FiniteSets, TLC

----------------------------------------------------------------------------
(* String primitives (ECMAScript String.prototype)                         *)

UpperChars == <<"A","B","C","D","E","F","G","H","I","J","K","L","M","N","O","P","Q","R","S","T","U","V","W","X","Y","Z">>
LowerChars == <<"a","b","c","d","e","f","g","h","i","j","k","l","m","n","o","p","q","r","s","t","u","v","w","x","y","z">>
DigitChars == {"0","1","2","3","4","5","6","7","8","9"}
SpaceChars == {" ", "\n"}

Range(f) == {f[i] : i \in DOMAIN f}

LetterIndex(alphabet, c) == CHOOSE i \in 1..Len(alphabet) : alphabet[i] = c

UpperSet == Range(UpperChars)
LowerSet == Range(LowerChars)
WordSet == UpperSet \cup LowerSet \cup DigitChars \cup {"_"}

\* the case mappings of the ASCII letters, tabulated once
lowerOf == [c \in UpperSet |-> LowerChars[LetterIndex(UpperChars, c)]] @@ [c \in {} |-> c]
upperOf == [c \in LowerSet |-> UpperChars[LetterIndex(LowerChars, c)]] @@ [c \in {} |-> c]

toLowerChar(c) == IF c \in UpperSet THEN lowerOf[c] ELSE c

toUpperChar(c) == IF c \in LowerSet THEN upperOf[c] ELSE c

toLowerCase(s) == [i \in 1..Len(s) |-> toLowerChar(s[i])]

toUpperCase(s) == [i \in 1..Len(s) |-> toUpperChar(s[i])]

\* s.substring(i-1, i-1+Len(p)) === p, for the 1-based position i
SubAt(s, i, p) ==
  /\ i >= 1
  /\ i + Len(p) - 1 <= Len(s)
  /\ \A k \in 1..Len(p) : s[i + k - 1] = p[k]

includes(s, p) == \E i \in 1..(Len(s) - Len(p) + 1) : SubAt(s, i, p)

startsWith(s, p) == SubAt(s, 1, p)

endsWith(s, p) == Len(p) <= Len(s) /\ SubAt(s, Len(s) - Len(p) + 1, p)

\* Array.prototype.includes on an array of strings
arrayIncludes(arr, x) == \E i \in 1..Len(arr) : arr[i] = x

Slice(s, from, to) == [i \in 1..(IF to >= from THEN to - from + 1 ELSE 0) |-> s[from + i - 1]]

\* s.trim()
trim(s) ==
  LET keep == {i \in 1..Len(s) : s[i] \notin SpaceChars}
  IN IF keep = {} THEN <<>>
     ELSE LET lo == CHOOSE i \in keep : \A j \in keep : i <= j
              hi == CHOOSE i \in keep : \A j \in keep : i >= j
          IN Slice(s, lo, hi)

\* s.split(c) for a one-character separator c
RECURSIVE splitChar(_, _)
splitChar(s, c) ==
  IF \A i \in 1..Len(s) : s[i] # c THEN <<s>>
  ELSE LET p == CHOOSE i \in 1..Len(s) : s[i] = c /\ \A j \in 1..(i - 1) : s[j] # c
       IN <<Slice(s, 1, p - 1)>> \o splitChar(Slice(s, p + 1, Len(s)), c)

\* s.split(/\s+/): the separators are the maximal runs of white space
RECURSIVE splitSpaces(_)
splitSpaces(s) ==
  IF \A i \in 1..Len(s) : s[i] \notin SpaceChars THEN <<s>>
  ELSE LET p == CHOOSE i \in 1..Len(s) :
                  s[i] \in SpaceChars /\ \A j \in 1..(i - 1) : s[j] \notin SpaceChars
           after == {i \in (p + 1)..Len(s) : s[i] \notin SpaceChars}
           q == IF after = {} THEN Len(s) + 1
                ELSE CHOOSE i \in after : \A j \in after : i <= j
       IN <<Slice(s, 1, p - 1)>> \o splitSpaces(Slice(s, q, Len(s)))

\* /^\d+$/.test(s)
isAllDigits(s) == Len(s) > 0 /\ \A i \in 1..Len(s) : s[i] \in DigitChars

\* s.replace(/^0+/, '')
RECURSIVE stripLeadingZeros(_)
stripLeadingZeros(s) ==
  IF Len(s) > 0 /\ s[1] = "0" THEN stripLeadingZeros(Tail(s)) ELSE s

\* \w of a regular expression
isWordChar(c) == c \in WordSet

\* new RegExp(`\\b${p}\\b`).test(s), for a pattern p whose only regular
\* expression metacharacter is the dot (any character but a line break)
PatAt(s, i, p) ==
  /\ i >= 1
  /\ i + Len(p) - 1 <= Len(s)
  /\ \A k \in 1..Len(p) : IF p[k] = "." THEN s[i + k - 1] # "\n" ELSE s[i + k - 1] = p[k]

\* the position between s[i] and s[i+1] is a word boundary
boundaryAfter(s, i) ==
  LET left == i >= 1 /\ i <= Len(s) /\ isWordChar(s[i])
      right == i + 1 >= 1 /\ i + 1 <= Len(s) /\ isWordChar(s[i + 1])
  IN left # right

wordBoundaryTest(s, p) ==
  \E i \in 1..(Len(s) - Len(p) + 1) :
     PatAt(s, i, p) /\ boundaryAfter(s, i - 1) /\ boundaryAfter(s, i + Len(p) - 1)

----------------------------------------------------------------------------
(* Exchange taxonomy (prioritize-by-geography.ts)                          *)

\* String constants of the source
S_NYSE == <<"N","Y","S","E">>
S_NASDAQ == <<"N","A","S","D","A","Q">>
S_HKEX == <<"H","K","E","X">>
S_HKSE == <<"H","K","S","E">>
S_SSE == <<"S","S","E">>
S_SHH == <<"S","H","H">>
S_SZSE == <<"S","Z","S","E">>
S_LSE == <<"L","S","E">>
S_SS == <<"S","S">>
S_SZ == <<"S","Z">>
S_us == <<"u","s">>
S_hk == <<"h","k">>
S_china == <<"c","h","i","n","a">>
S_global == <<"g","l","o","b","a","l">>
S_all == <<"a","l","l">>
S_dotHK == <<".","H","K">>
S_dotSS == <<".","S","S">>
S_dotSZ == <<".","S","Z">>

\* The object literal in its property order (Object.entries order)
EXCHANGE_MAPPINGS ==
  <<[key |-> S_NYSE,
     variants |-> <<<<"N","Y","S","E">>,
                   <<"N","e","w"," ","Y","o","r","k"," ","S","t","o","c","k"," ","E","x","c","h","a","n","g","e">>,
                   <<"N","Y","Q">>,
                   <<"N","Y","S","E","A","M","E","R","I","C","A","N">>,
                   <<"N","Y","S","E","A","R","C","A">>>>],
    [key |-> S_NASDAQ,
     variants |-> <<<<"N","A","S","D","A","Q">>,
                   <<"N","A","S","D","A","Q"," ","G","l","o","b","a","l"," ","S","e","l","e","c","t">>,
                   <<"N","A","S","D","A","Q"," ","G","l","o","b","a","l"," ","M","a","r","k","e","t">>,
                   <<"N","A","S","D","A","Q"," ","C","a","p","i","t","a","l"," ","M","a","r","k","e","t">>,
                   <<"N","M","S">>,
                   <<"N","G","M">>,
                   <<"N","C","M">>>>],
    [key |-> S_HKEX,
     variants |-> <<<<"H","K","E","X">>,
                   <<"H","K">>,
                   <<"H","K","S","E">>,
                   <<"H","o","n","g"," ","K","o","n","g"," ","S","t","o","c","k"," ","E","x","c","h","a","n","g","e">>,
                   <<"S","E","H","K">>>>],
    [key |-> S_HKSE,
     variants |-> <<<<"H","K","S","E">>,
                   <<"H","K","E","X">>,
                   <<"H","K">>,
                   <<"H","o","n","g"," ","K","o","n","g"," ","S","t","o","c","k"," ","E","x","c","h","a","n","g","e">>,
                   <<"S","E","H","K">>>>],
    [key |-> S_SSE,
     variants |-> <<<<"S","S","E">>,
                   <<"S","h","a","n","g","h","a","i"," ","S","t","o","c","k"," ","E","x","c","h","a","n","g","e">>,
                   <<"S","H","A">>,
                   <<"S","H">>>>],
    [key |-> S_SHH,
     variants |-> <<<<"S","H","H">>,
                   <<"S","h","a","n","g","h","a","i">>,
                   <<"S","S">>>>],
    [key |-> S_SZSE,
     variants |-> <<<<"S","Z","S","E">>,
                   <<"S","h","e","n","z","h","e","n"," ","S","t","o","c","k"," ","E","x","c","h","a","n","g","e">>,
                   <<"S","H","E">>,
                   <<"S","Z">>>>],
    [key |-> S_LSE,
     variants |-> <<<<"L","S","E">>,
                   <<"L","o","n","d","o","n"," ","S","t","o","c","k"," ","E","x","c","h","a","n","g","e">>,
                   <<"L","O","N">>>>]>>

GEOGRAPHY_EXCHANGES(geography) ==
  CASE geography = S_us -> <<S_NYSE, S_NASDAQ>>
    [] geography = S_hk -> <<S_HKEX, S_HKSE>>
    [] geography = S_china -> <<S_SSE, S_SZSE, S_SHH>>
    [] geography = S_global -> <<>>

Geographies == {S_us, S_hk, S_china, S_global}

\* EXCHANGE_MAPPINGS[key]: the variants of an own property, <<>> for none
isCanonicalKey(name) == \E i \in 1..Len(EXCHANGE_MAPPINGS) : EXCHANGE_MAPPINGS[i].key = name

\* the variants of a key, were the other Hong Kong key not among them
variantsOf_NoCross(key) ==
  SelectSeq(EXCHANGE_MAPPINGS[CHOOSE i \in 1..Len(EXCHANGE_MAPPINGS) :
                                EXCHANGE_MAPPINGS[i].key = key].variants,
            LAMBDA variant : variant = key \/ variant \notin {S_HKEX, S_HKSE})

variantsOf(key) ==
  EXCHANGE_MAPPINGS[CHOOSE i \in 1..Len(EXCHANGE_MAPPINGS) : EXCHANGE_MAPPINGS[i].key = key].variants

\* the result undefined is the empty sequence
\* lines 56-62: the first mapping one of whose variants, upper-cased, is
\* upperExchange
isVariantOfAKey(upperExchange) ==
  \E i \in 1..Len(EXCHANGE_MAPPINGS) :
     \E v \in 1..Len(EXCHANGE_MAPPINGS[i].variants) :
        toUpperCase(EXCHANGE_MAPPINGS[i].variants[v]) = upperExchange

keyOfVariant(upperExchange) ==
  EXCHANGE_MAPPINGS[CHOOSE i \in 1..Len(EXCHANGE_MAPPINGS) :
     /\ \E v \in 1..Len(EXCHANGE_MAPPINGS[i].variants) :
           toUpperCase(EXCHANGE_MAPPINGS[i].variants[v]) = upperExchange
     /\ \A j \in 1..(i - 1) : \A v \in 1..Len(EXCHANGE_MAPPINGS[j].variants) :
           toUpperCase(EXCHANGE_MAPPINGS[j].variants[v]) # upperExchange].key

\* Names every object literal inherits from Object.prototype, for which
\* EXCHANGE_MAPPINGS[name] is truthy as it is for the keys of the literal
ObjectPrototypeNames ==
  {<<"c","o","n","s","t","r","u","c","t","o","r">>,
   <<"t","o","S","t","r","i","n","g">>,
   <<"v","a","l","u","e","O","f">>,
   <<"h","a","s","O","w","n","P","r","o","p","e","r","t","y">>}

\* line 52: EXCHANGE_MAPPINGS[exchangeName] is truthy
hasMapping(exchangeName) == isCanonicalKey(exchangeName) \/ exchangeName \in ObjectPrototypeNames

\* the result undefined is the empty sequence
findCanonicalExchangeKey(exchangeName) ==
  IF exchangeName = <<>> THEN <<>>
  ELSE IF hasMapping(exchangeName) THEN exchangeName
  ELSE IF isVariantOfAKey(toUpperCase(exchangeName))
  THEN keyOfVariant(toUpperCase(exchangeName))
  ELSE <<>>

\* variant.includes(' ') ? variant.split(' ')[0].toUpperCase() : variant.toUpperCase()
suffixOf(variant) ==
  IF includes(variant, <<" ">>) THEN toUpperCase(splitChar(variant, " ")[1])
  ELSE toUpperCase(variant)

\* lines 116-147 of isStockFromExchange, for a canonical key and its variants
matchesVariants(stock, canonicalKey, variants) ==
  \/ /\ stock.exchangeShortName # <<>>
     /\ \E v \in 1..Len(variants) :
          toUpperCase(variants[v]) = toUpperCase(stock.exchangeShortName)
  \/ /\ stock.exchange # <<>>
     /\ \E v \in 1..Len(variants) :
          toUpperCase(variants[v]) = toUpperCase(stock.exchange)
  \/ /\ stock.symbol # <<>>
     /\ \E v \in 1..Len(variants) :
          IF canonicalKey = S_HKEX \/ canonicalKey = S_HKSE
          THEN endsWith(toUpperCase(stock.symbol), S_dotHK)
          ELSE \E suffix \in {suffixOf(variants[v])} :
                  \/ endsWith(toUpperCase(stock.symbol), <<".">> \o suffix)
                  \/ endsWith(toUpperCase(stock.symbol), <<":">> \o suffix)

\* lines 107-147 of isStockFromExchange, for the canonical key found
matchesCanonical(stock, exchangeKey, canonicalKey) ==
  IF canonicalKey = <<>>
  THEN \/ stock.exchangeShortName = exchangeKey
       \/ stock.exchange = exchangeKey
       \/ endsWith(stock.symbol, <<".">> \o exchangeKey)
  ELSE matchesVariants(stock, canonicalKey, variantsOf(canonicalKey))

isStockFromExchange(stock, exchangeKey) ==
  IF exchangeKey = <<>> \/ exchangeKey = S_all THEN TRUE
  ELSE matchesCanonical(stock, exchangeKey, findCanonicalExchangeKey(exchangeKey))

----------------------------------------------------------------------------
(* Arrays, Maps and Array.prototype.sort                                   *)

NoMap == [k \in {} |-> <<>>]

\* Map.prototype.set: a later set of the same key replaces the value
mapSet(m, k, v) == [x \in (DOMAIN m) \cup {k} |-> IF x = k THEN v ELSE m[x]]

\* the symbols of a list of stocks
symbolsOf(stocks) == {stocks[i].symbol : i \in 1..Len(stocks)}

\* The engines' sorts are stable.  With a comparator that is a consistent
\* order every stable sort returns the same array; with one that is not,
\* the order is implementation-defined, and the model carries the two
\* insertion strategies engines use for short arrays: a linear scan from the
\* right and a binary search.
SortEngines == {"linear", "binary"}

linearPos(sorted, x, Cmp(_, _)) ==
  LET stop == {j \in 1..Len(sorted) : ~(Cmp(x, sorted[j]) < 0)}
  IN IF stop = {} THEN 0 ELSE CHOOSE j \in stop : \A k \in stop : k <= j

binaryPos(sorted, x, Cmp(_, _)) ==
  LET n == Len(sorted)
      f[l \in 0..n, r \in 0..n] ==
        IF l >= r THEN l
        ELSE LET mid == l + ((r - l) \div 2)
             IN IF Cmp(x, sorted[mid + 1]) < 0 THEN f[l, mid] ELSE f[mid + 1, r]
  IN f[0, n]

insertSorted(sorted, x, Cmp(_, _), engine) ==
  LET p == IF engine = "binary" THEN binaryPos(sorted, x, Cmp) ELSE linearPos(sorted, x, Cmp)
  IN SubSeq(sorted, 1, p) \o <<x>> \o SubSeq(sorted, p + 1, Len(sorted))

\* [...arr].sort(Cmp)
sortBy(arr, Cmp(_, _), engine) ==
  LET f[k \in 0..Len(arr)] ==
        IF k = 0 THEN <<>> ELSE insertSorted(f[k - 1], arr[k], Cmp, engine)
  IN f[Len(arr)]

\* arr.slice(0, n)
sliceFirst(arr, n) == SubSeq(arr, 1, IF Len(arr) < n THEN Len(arr) ELSE n)

----------------------------------------------------------------------------
(* Geography prioritizer (prioritize-by-geography.ts)                      *)
(* A Stock is [symbol, name, exchange, exchangeShortName, acronyms,        *)
(* searchTerms]; an ExtractedEntity is [name, symbol, exchange,            *)
(* originalText].                                                          *)

\* marketCapRank[stock.exchangeShortName] || 999
getMarketCapRank(stock) ==
  LET e == stock.exchangeShortName
  IN CASE e = S_NYSE -> 1
       [] e = S_NASDAQ -> 2
       [] e = S_HKEX \/ e = S_HKSE -> 3
       [] e = S_LSE -> 4
       [] e = S_SSE \/ e = S_SHH \/ e = S_SS -> 5
       [] e = S_SZSE \/ e = S_SZ -> 6
       [] OTHER -> 999

\* entity.name.toLowerCase().trim()
normalizeName(entity) == trim(toLowerCase(entity.name))

\* the filter predicate without the leading-zero handling of lines 224-231
matchesEntity_NoStrip(stock, normalizedName) ==
  LET stockName == toLowerCase(stock.name)
      nameMatch == includes(stockName, normalizedName)
      symbolMatch == toLowerCase(stock.symbol) = normalizedName
      acronymMatch == \E i \in 1..Len(stock.acronyms) :
                         toLowerCase(stock.acronyms[i]) = normalizedName
      wordMatch == arrayIncludes(splitSpaces(stockName), normalizedName)
      numericMatch == isAllDigits(normalizedName) /\ includes(stock.symbol, normalizedName)
  IN nameMatch \/ symbolMatch \/ acronymMatch \/ wordMatch \/ numericMatch

\* the filter predicate of matchingStocks
matchesEntity(stock, normalizedName) ==
  LET stockName == toLowerCase(stock.name)
      nameMatch == includes(stockName, normalizedName)
      symbolMatch == toLowerCase(stock.symbol) = normalizedName
      acronymMatch == \E i \in 1..Len(stock.acronyms) :
                         toLowerCase(stock.acronyms[i]) = normalizedName
      wordMatch == arrayIncludes(splitSpaces(stockName), normalizedName)
      numericMatch ==
        /\ isAllDigits(normalizedName)
        /\ \/ includes(stock.symbol, normalizedName)
           \/ /\ startsWith(normalizedName, <<"0", "0">>)
              /\ Len(normalizedName) >= 4
              /\ Len(stripLeadingZeros(normalizedName)) > 0
              /\ includes(stock.symbol, stripLeadingZeros(normalizedName))
  IN nameMatch \/ symbolMatch \/ acronymMatch \/ wordMatch \/ numericMatch

matchingStocksOf(stocks, normalizedName) ==
  SelectSeq(stocks, LAMBDA s : matchesEntity(s, normalizedName))

debugMatch(stock, reason) ==
  [symbol |-> stock.symbol, name |-> stock.name, exchange |-> stock.exchange,
   exchangeShortName |-> stock.exchangeShortName, matchReason |-> reason]

\* entity.exchange || geography
debugExchange(entity, geography) ==
  IF entity.exchange # <<>> THEN entity.exchange ELSE geography

\* one push of the loop body: prioritizedTickers.push, tickerToEntityMap.set
\* and tickerDebugMap.set of the same ticker
pushOf(ticker, entity, geography, allMatches, reason) ==
  [ticker |-> ticker,
   entity |-> entity,
   debugInfo |-> [ticker |-> ticker, entity |-> entity.name,
                  exchange |-> debugExchange(entity, geography),
                  allMatches |-> allMatches, selectionReason |-> reason]]

\* Step 1: the comparator of sortedFuzzyMatches
cmpFuzzy(a, b, normalizedName, geography) ==
  LET order(aContainsNumber, bContainsNumber, aMatchesGeography, bMatchesGeography) ==
        IF aContainsNumber /\ ~bContainsNumber THEN -1
        ELSE IF ~aContainsNumber /\ bContainsNumber THEN 1
        ELSE IF aMatchesGeography /\ ~bMatchesGeography THEN -1
        ELSE IF ~aMatchesGeography /\ bMatchesGeography THEN 1
        ELSE Len(a.symbol) - Len(b.symbol)
  IN order(includes(a.symbol, normalizedName), includes(b.symbol, normalizedName),
           isStockFromExchange(a, geography), isStockFromExchange(b, geography))

\* lines 242-303: the fallback of an entity without a matching stock
numericFallback(stocks, geography, entity, engine) ==
  LET push(fuzzyMatches) ==
        <<pushOf(fuzzyMatches[1].symbol, entity, geography,
                 [i \in 1..Len(fuzzyMatches) |-> debugMatch(fuzzyMatches[i], <<"Fuzzy match">>)],
                 <<"Fuzzy match - no exact match found">>)>>
      fallback(normalizedName) ==
        IF isAllDigits(normalizedName) /\ Len(stocks) > 0
        THEN push(sliceFirst(sortBy(stocks,
                                    LAMBDA a, b : cmpFuzzy(a, b, normalizedName, geography),
                                    engine), 5))
        ELSE <<>>
  IN fallback(normalizeName(entity))

\* the Step 2 filter comparing exchangeShortName with the hint instead of
\* calling isStockFromExchange
stocksInSpecifiedExchange_ShortNameOnly(matchingStocks, entity) ==
  SelectSeq(matchingStocks, LAMBDA s : s.exchangeShortName = entity.exchange)

\* Step 2: stocksInSpecifiedExchange and the comparator of its sort
stocksInSpecifiedExchange(matchingStocks, entity) ==
  SelectSeq(matchingStocks, LAMBDA s : isStockFromExchange(s, entity.exchange))

cmpSpecified(a, b, normalizedName, entity) ==
  LET order(aNameExact, bNameExact, aHasExchangeSuffix, bHasExchangeSuffix) ==
        IF aNameExact /\ ~bNameExact THEN -1
        ELSE IF ~aNameExact /\ bNameExact THEN 1
        ELSE IF aHasExchangeSuffix /\ ~bHasExchangeSuffix THEN -1
        ELSE IF ~aHasExchangeSuffix /\ bHasExchangeSuffix THEN 1
        ELSE IF aHasExchangeSuffix /\ bHasExchangeSuffix THEN Len(a.symbol) - Len(b.symbol)
        ELSE 0
      suffixed(exchangeCode) ==
        order(toLowerCase(a.name) = normalizedName, toLowerCase(b.name) = normalizedName,
              endsWith(toLowerCase(a.symbol), <<".">> \o exchangeCode),
              endsWith(toLowerCase(b.symbol), <<".">> \o exchangeCode))
  IN suffixed(toLowerCase(entity.exchange))

\* name-match tier shared by the global and the fallback score
nameTierScore(stockName, normalizedName) ==
  IF stockName = normalizedName THEN 10000
  ELSE IF startsWith(stockName, normalizedName \o <<" ">>) THEN 5000
  ELSE IF wordBoundaryTest(stockName, normalizedName) THEN 3000
  ELSE IF includes(stockName, normalizedName) THEN 1000
  ELSE 0

S_etf == <<"e","t","f">>
S_etp == <<"e","t","p">>
S_tracker == <<"t","r","a","c","k","e","r">>
S_short == <<"s","h","o","r","t">>
S_long == <<"l","o","n","g">>
S_m1x == <<"-","1","x">>
S_m2x == <<"-","2","x">>
S_m3x == <<"-","3","x">>

\* the derivative markers of lines 422-424 and of lines 612-614
globalMarkers == {S_etf, S_etp, S_tracker, S_short, S_long, S_m1x, S_m2x, S_m3x}
fallbackMarkers == {S_tracker, S_m1x, S_m2x, S_m3x, S_short, S_etf, S_etp}

\* Step 3: globalMatchScores and the comparator of sortedByMarketCap
globalDerivative(stockName) == \E marker \in globalMarkers : includes(stockName, marker)

globalScore(stock, normalizedName) ==
  LET score(stockName) ==
        nameTierScore(stockName, normalizedName)
        + (IF ~includes(stock.symbol, <<".">>) THEN 3000 ELSE 0)
        + (1000 - getMarketCapRank(stock) * 100)
        - (IF globalDerivative(stockName) THEN 5000 ELSE 0)
  IN score(toLowerCase(stock.name))

\* the comparator of sortedByMarketCap returning aScore - bScore on unequal
\* scores
cmpGlobal_LowestScoreFirst(a, b, normalizedName) ==
  LET order(aScore, bScore, aNameExact, bNameExact, aPrimaryMarket, bPrimaryMarket) ==
        IF aScore # bScore THEN aScore - bScore
        ELSE IF aNameExact /\ ~bNameExact THEN -1
        ELSE IF ~aNameExact /\ bNameExact THEN 1
        ELSE IF aPrimaryMarket /\ ~bPrimaryMarket THEN -1
        ELSE IF ~aPrimaryMarket /\ bPrimaryMarket THEN 1
        ELSE getMarketCapRank(a) - getMarketCapRank(b)
  IN order(globalScore(a, normalizedName), globalScore(b, normalizedName),
           toLowerCase(a.name) = normalizedName, toLowerCase(b.name) = normalizedName,
           ~includes(a.symbol, <<".">>), ~includes(b.symbol, <<".">>))

cmpGlobal(a, b, normalizedName) ==
  LET order(aScore, bScore, aNameExact, bNameExact, aPrimaryMarket, bPrimaryMarket) ==
        IF aScore # bScore THEN bScore - aScore
        ELSE IF aNameExact /\ ~bNameExact THEN -1
        ELSE IF ~aNameExact /\ bNameExact THEN 1
        ELSE IF aPrimaryMarket /\ ~bPrimaryMarket THEN -1
        ELSE IF ~aPrimaryMarket /\ bPrimaryMarket THEN 1
        ELSE getMarketCapRank(a) - getMarketCapRank(b)
  IN order(globalScore(a, normalizedName), globalScore(b, normalizedName),
           toLowerCase(a.name) = normalizedName, toLowerCase(b.name) = normalizedName,
           ~includes(a.symbol, <<".">>), ~includes(b.symbol, <<".">>))

\* Step 4: stocksInPreferredExchanges and the comparator of its sort
inPreferredExchange(stock, geography) ==
  \E exchanges \in {GEOGRAPHY_EXCHANGES(geography)} :
     \E i \in 1..Len(exchanges) : isStockFromExchange(stock, exchanges[i])

stocksInPreferredExchanges(matchingStocks, geography) ==
  SelectSeq(matchingStocks, LAMBDA s : inPreferredExchange(s, geography))

isChinaSymbol(symbol) == endsWith(symbol, S_dotSS) \/ endsWith(symbol, S_dotSZ)

\* the Step 4 comparator without the hk rules of lines 504-520
cmpPreferred_NoHK(a, b, geography) ==
  LET order(aIsUS, bIsUS, aIsChina, bIsChina) ==
        IF geography = S_us /\ aIsUS /\ ~bIsUS THEN -1
        ELSE IF geography = S_us /\ ~aIsUS /\ bIsUS THEN 1
        ELSE IF geography = S_china /\ aIsChina /\ ~bIsChina THEN -1
        ELSE IF geography = S_china /\ ~aIsChina /\ bIsChina THEN 1
        ELSE 0
  IN order(~includes(a.symbol, <<".">>), ~includes(b.symbol, <<".">>),
           isChinaSymbol(a.symbol), isChinaSymbol(b.symbol))

\* the Step 4 comparator without the us rule
cmpPreferred_NoUS(a, b, geography) ==
  LET order(aIsHK, bIsHK, aCode, bCode, aIsChina, bIsChina) ==
        IF geography = S_hk /\ aIsHK /\ ~bIsHK THEN -1
        ELSE IF geography = S_hk /\ ~aIsHK /\ bIsHK THEN 1
        ELSE IF geography = S_hk /\ aIsHK /\ bIsHK /\ isAllDigits(aCode) /\ isAllDigits(bCode)
             THEN Len(aCode) - Len(bCode)
        ELSE IF geography = S_china /\ aIsChina /\ ~bIsChina THEN -1
        ELSE IF geography = S_china /\ ~aIsChina /\ bIsChina THEN 1
        ELSE 0
  IN order(endsWith(a.symbol, S_dotHK), endsWith(b.symbol, S_dotHK),
           splitChar(a.symbol, ".")[1], splitChar(b.symbol, ".")[1],
           isChinaSymbol(a.symbol), isChinaSymbol(b.symbol))

cmpPreferred(a, b, geography) ==
  LET order(aIsHK, bIsHK, aCode, bCode, aIsUS, bIsUS, aIsChina, bIsChina) ==
        IF geography = S_hk /\ aIsHK /\ ~bIsHK THEN -1
        ELSE IF geography = S_hk /\ ~aIsHK /\ bIsHK THEN 1
        ELSE IF geography = S_hk /\ aIsHK /\ bIsHK /\ isAllDigits(aCode) /\ isAllDigits(bCode)
             THEN Len(aCode) - Len(bCode)
        ELSE IF geography = S_us /\ aIsUS /\ ~bIsUS THEN -1
        ELSE IF geography = S_us /\ ~aIsUS /\ bIsUS THEN 1
        ELSE IF geography = S_china /\ aIsChina /\ ~bIsChina THEN -1
        ELSE IF geography = S_china /\ ~aIsChina /\ bIsChina THEN 1
        ELSE 0
  IN order(endsWith(a.symbol, S_dotHK), endsWith(b.symbol, S_dotHK),
           splitChar(a.symbol, ".")[1], splitChar(b.symbol, ".")[1],
           ~includes(a.symbol, <<".">>), ~includes(b.symbol, <<".">>),
           isChinaSymbol(a.symbol), isChinaSymbol(b.symbol))

\* lines 494-499: the first allMatches entry of each preferred stock's symbol
\* gets the match reason of the geography
markPreferred(allMatches, preferred, geography) ==
  [i \in 1..Len(allMatches) |->
     IF /\ \E p \in 1..Len(preferred) : preferred[p].symbol = allMatches[i].symbol
        /\ \A j \in 1..(i - 1) : allMatches[j].symbol # allMatches[i].symbol
     THEN [allMatches[i] EXCEPT !.matchReason = <<"Matches preferred exchange for ", geography>>]
     ELSE allMatches[i]]

\* Step 5: matchScores and the comparator of sortedMatches
fallbackDerivative(stockName) == \E marker \in fallbackMarkers : includes(stockName, marker)

fallbackScore(stock, normalizedName) ==
  LET score(stockName, stockSymbol) ==
        nameTierScore(stockName, normalizedName)
        + (IF arrayIncludes(splitSpaces(stockName), normalizedName) THEN 500 ELSE 0)
        + (IF stockSymbol = normalizedName THEN 8000
           ELSE IF startsWith(stockSymbol, sliceFirst(normalizedName, 2)) THEN 2000
           ELSE 0)
        + (IF stock.exchangeShortName = S_NYSE \/ stock.exchangeShortName = S_NASDAQ
           THEN 500 ELSE 0)
        - (IF fallbackDerivative(stockName) THEN 1000 ELSE 0)
  IN score(toLowerCase(stock.name), toLowerCase(stock.symbol))

primaryMarkets(stock) ==
  LET e == stock.exchangeShortName
  IN CASE e = S_NYSE \/ e = S_NASDAQ \/ e = S_HKSE \/ e = S_HKEX -> 3
       [] e = S_LSE \/ e = S_SSE \/ e = S_SZSE -> 2
       [] OTHER -> 0

\* lines 643-649: the symbol has the form the geography prefers
geoPreferred(symbol, geography) ==
  CASE geography = S_hk -> endsWith(symbol, S_dotHK)
    [] geography = S_us -> ~includes(symbol, <<".">>)
    [] geography = S_china -> isChinaSymbol(symbol)
    [] OTHER -> FALSE

cmpFallback(a, b, normalizedName, geography) ==
  LET order(aScore, bScore, aNameExact, bNameExact, aGeo, bGeo, aPrimary, bPrimary) ==
        IF aScore # bScore THEN bScore - aScore
        ELSE IF aNameExact /\ ~bNameExact THEN -1
        ELSE IF ~aNameExact /\ bNameExact THEN 1
        ELSE IF aGeo /\ ~bGeo THEN -1
        ELSE IF ~aGeo /\ bGeo THEN 1
        ELSE IF aPrimary # bPrimary THEN bPrimary - aPrimary
        ELSE Len(a.symbol) - Len(b.symbol)
  IN order(fallbackScore(a, normalizedName), fallbackScore(b, normalizedName),
           toLowerCase(a.name) = normalizedName, toLowerCase(b.name) = normalizedName,
           geoPreferred(a.symbol, geography), geoPreferred(b.symbol, geography),
           primaryMarkets(a), primaryMarkets(b))

\* The branches of the loop body; each returns the pushes it makes
specifiedBranch(specified, normalizedName, entity, geography, allMatches, engine) ==
  LET push(sortedStocks) ==
        <<pushOf(sortedStocks[1].symbol, entity, geography, allMatches,
                 <<"User specified exchange: ", entity.exchange>>)>>
  IN push(sortBy(specified, LAMBDA a, b : cmpSpecified(a, b, normalizedName, entity), engine))

globalBranch(matchingStocks, normalizedName, entity, geography, allMatches, engine) ==
  LET push(sortedByMarketCap) ==
        <<pushOf(sortedByMarketCap[1].symbol, entity, geography, allMatches,
                 <<"Global setting, sorted by match quality and market cap">>)>>
  IN push(sortBy(matchingStocks, LAMBDA a, b : cmpGlobal(a, b, normalizedName), engine))

preferredBranch(preferred, entity, geography, allMatches, engine) ==
  LET push(sortedStocks) ==
        <<pushOf(sortedStocks[1].symbol, entity, geography, allMatches,
                 <<"Matched preferred exchange for ", geography>>)>>
  IN push(sortBy(preferred, LAMBDA a, b : cmpPreferred(a, b, geography), engine))

\* PRIORITY 3: the smart fallback for several matches, else the only match
lastBranch(matchingStocks, normalizedName, entity, geography, allMatches, engine) ==
  LET push(sortedMatches) ==
        <<pushOf(sortedMatches[1].symbol, entity, geography, allMatches,
                 <<"Smart fallback prioritization with score ",
                   fallbackScore(sortedMatches[1], normalizedName)>>)>>
  IN IF Len(matchingStocks) > 1
     THEN push(sortBy(matchingStocks,
                      LAMBDA a, b : cmpFallback(a, b, normalizedName, geography), engine))
     ELSE <<pushOf(matchingStocks[1].symbol, entity, geography, allMatches,
                   <<"Only one match available">>)>>

\* the cascade with Step 2 falling through to the later steps (its
\* "continue" missing)
cascade_FallThrough(matchingStocks, normalizedName, geography, entity, engine) ==
  LET later(allMatches, preferred) ==
        IF geography = S_global \/ Len(GEOGRAPHY_EXCHANGES(geography)) = 0
        THEN globalBranch(matchingStocks, normalizedName, entity, geography, allMatches, engine)
        ELSE IF Len(preferred) > 0
        THEN preferredBranch(preferred, entity, geography,
                             markPreferred(allMatches, preferred, geography), engine)
        ELSE lastBranch(matchingStocks, normalizedName, entity, geography,
                        markPreferred(allMatches, preferred, geography), engine)
      branch(allMatches, specified, preferred) ==
        (IF Len(specified) > 0
         THEN specifiedBranch(specified, normalizedName, entity, geography, allMatches, engine)
         ELSE <<>>) \o later(allMatches, preferred)
  IN branch([i \in 1..Len(matchingStocks) |-> debugMatch(matchingStocks[i], <<"Name match">>)],
            IF entity.exchange # <<>>
            THEN stocksInSpecifiedExchange(matchingStocks, entity) ELSE <<>>,
            stocksInPreferredExchanges(matchingStocks, geography))

\* lines 306-705: the cascade over the matching stocks of one entity
cascade(matchingStocks, normalizedName, geography, entity, engine) ==
  LET branch(allMatches, specified, preferred) ==
        IF Len(specified) > 0
        THEN specifiedBranch(specified, normalizedName, entity, geography, allMatches, engine)
        ELSE IF geography = S_global \/ Len(GEOGRAPHY_EXCHANGES(geography)) = 0
        THEN globalBranch(matchingStocks, normalizedName, entity, geography, allMatches, engine)
        ELSE IF Len(preferred) > 0
        THEN preferredBranch(preferred, entity, geography,
                             markPreferred(allMatches, preferred, geography), engine)
        ELSE lastBranch(matchingStocks, normalizedName, entity, geography,
                        markPreferred(allMatches, preferred, geography), engine)
  IN branch([i \in 1..Len(matchingStocks) |-> debugMatch(matchingStocks[i], <<"Name match">>)],
            IF entity.exchange # <<>>
            THEN stocksInSpecifiedExchange(matchingStocks, entity) ELSE <<>>,
            stocksInPreferredExchanges(matchingStocks, geography))

\* One iteration of "for (const entity of entities)": the pushes it makes
resolveEntity(stocks, geography, entity, engine) ==
  LET step(matchingStocks, normalizedName) ==
        IF Len(matchingStocks) = 0
        THEN numericFallback(stocks, geography, entity, engine)
        ELSE cascade(matchingStocks, normalizedName, geography, entity, engine)
  IN step(matchingStocksOf(stocks, normalizeName(entity)), normalizeName(entity))

\* the pushes without tickerDebugMap.set
applyPushes_NoDebug(acc, pushes) ==
  LET set(prev, push) ==
        [tickers |-> Append(prev.tickers, push.ticker),
         entityMap |-> mapSet(prev.entityMap, push.ticker, push.entity),
         debugMap |-> prev.debugMap,
         pushed |-> prev.pushed]
      f[k \in 0..Len(pushes)] == IF k = 0 THEN acc ELSE set(f[k - 1], pushes[k])
      record(done) ==
        [done EXCEPT !.pushed = Append(acc.pushed, [i \in 1..Len(pushes) |-> pushes[i].ticker])]
  IN record(f[Len(pushes)])

\* prioritizedTickers.push(ticker); tickerToEntityMap.set(ticker, entity);
\* tickerDebugMap.set(ticker, debugInfo), for each push of one iteration.
\* acc.pushed records, per entity, the tickers its iteration pushed.
applyPushes(acc, pushes) ==
  LET set(prev, push) ==
        [tickers |-> Append(prev.tickers, push.ticker),
         entityMap |-> mapSet(prev.entityMap, push.ticker, push.entity),
         debugMap |-> mapSet(prev.debugMap, push.ticker, push.debugInfo),
         pushed |-> prev.pushed]
      f[k \in 0..Len(pushes)] == IF k = 0 THEN acc ELSE set(f[k - 1], pushes[k])
      record(done) ==
        [done EXCEPT !.pushed = Append(acc.pushed, [i \in 1..Len(pushes) |-> pushes[i].ticker])]
  IN record(f[Len(pushes)])

\* a call that keeps the maps of the call before it
resetMaps_Kept(oldEntityMap, oldDebugMap) ==
  [entityMap |-> oldEntityMap, debugMap |-> oldDebugMap]

\* lines 153-155: tickerToEntityMap = new Map(); tickerDebugMap = new Map()
resetMaps(oldEntityMap, oldDebugMap) == [entityMap |-> NoMap, debugMap |-> NoMap]

----------------------------------------------------------------------------
(* Search metadata of the corpus (stock-cache.ts)                          *)

StopWords ==
  {<<"i","n","c">>,
   <<"c","o","r","p">>,
   <<"l","t","d">>,
   <<"l","i","m","i","t","e","d">>,
   <<"c","o">>,
   <<"c","o","m","p","a","n","y">>,
   <<"t","h","e">>,
   <<"a","n","d">>,
   <<"o","f">>,
   <<"g","r","o","u","p">>,
   <<"h","o","l","d","i","n","g","s">>,
   <<"p","l","c">>}

\* strs.join("")
RECURSIVE joinAll(_)
joinAll(strs) == IF Len(strs) = 0 THEN <<>> ELSE Head(strs) \o joinAll(Tail(strs))

\* word.charAt(0)
charAt0(word) == sliceFirst(word, 1)

\* [...new Set(arr)]: the first occurrence of each element, in order
dedupe(arr) ==
  SelectSeq([i \in 1..Len(arr) |-> [v |-> arr[i], first |-> \A j \in 1..(i - 1) : arr[j] # arr[i]]],
            LAMBDA r : r.first)

valuesOf(recs) == [i \in 1..Len(recs) |-> recs[i].v]

\* name.match(/\(([^)]+)\)/): the group of the leftmost match, <<>> for none
parenthesesGroup(name) ==
  LET opens == {i \in 1..Len(name) :
                  /\ name[i] = "("
                  /\ \E j \in (i + 2)..Len(name) :
                        name[j] = ")" /\ \A k \in (i + 1)..(j - 1) : name[k] # ")"}
  IN IF opens = {} THEN <<>>
     ELSE LET i == CHOOSE x \in opens : \A y \in opens : x <= y
              j == CHOOSE x \in (i + 2)..Len(name) :
                     name[x] = ")" /\ \A k \in (i + 1)..(x - 1) : name[k] # ")"
          IN Slice(name, i + 1, j - 1)

\* name.match(/\.([A-Z]+)$/): the group, <<>> for none
dottedSuffixGroup(name) ==
  LET dots == {i \in 1..(Len(name) - 1) :
                 name[i] = "." /\ \A k \in (i + 1)..Len(name) : name[k] \in UpperSet}
  IN IF dots = {} THEN <<>>
     ELSE LET i == CHOOSE x \in dots : \A y \in dots : x <= y
          IN Slice(name, i + 1, Len(name))

\* the acronym of the initials, kept when longer than one character
initials(words) ==
  LET keep(acronym) == IF Len(acronym) > 1 THEN <<acronym>> ELSE <<>>
  IN keep(toUpperCase(joinAll([i \in 1..Len(words) |-> charAt0(words[i])])))

\* lines 82-106: the acronyms of the meaningful words
meaningfulAcronyms(meaningfulWords) ==
  IF Len(meaningfulWords) > 1
  THEN initials(meaningfulWords)
       \o SelectSeq([i \in 1..Len(meaningfulWords) |->
                       toUpperCase(sliceFirst(meaningfulWords[i], 2))],
                    LAMBDA a : Len(a) = 2)
       \o SelectSeq([i \in 1..Len(meaningfulWords) |->
                       toUpperCase(charAt0(meaningfulWords[i])
                                   \o <<meaningfulWords[i][Len(meaningfulWords[i])]>>)],
                    LAMBDA a : Len(a) = 2)
  ELSE <<>>

\* a match group as a list of at most one string
groupOf(group) == IF group # <<>> THEN <<group>> ELSE <<>>

extractAcronyms(name) ==
  LET acronyms(words, capitalLetters) ==
        (IF Len(words) > 1 THEN initials(words) ELSE <<>>)
        \o (IF Len(capitalLetters) > 1 THEN <<capitalLetters>> ELSE <<>>)
        \o groupOf(parenthesesGroup(name))
        \o meaningfulAcronyms(SelectSeq(words,
              LAMBDA w : Len(w) > 2 /\ toLowerCase(w) \notin StopWords))
        \o groupOf(dottedSuffixGroup(name))
  IN valuesOf(dedupe(acronyms(splitSpaces(name), SelectSeq(name, LAMBDA c : c \in UpperSet))))

\* s.replace(/[^a-z0-9]/g, "")
keepAlnum(s) == SelectSeq(s, LAMBDA c : c \in LowerSet \cup DigitChars)

\* s.replace(/\s+/g, "")
dropSpaces(s) == SelectSeq(s, LAMBDA c : c \notin SpaceChars)

\* s.replace(/\.(SS|HK|TW|US)$/, ""): the pattern is upper case
dropExchangeSuffix(s) ==
  IF \/ endsWith(s, <<".", "S", "S">>) \/ endsWith(s, <<".", "H", "K">>)
     \/ endsWith(s, <<".", "T", "W">>) \/ endsWith(s, <<".", "U", "S">>)
  THEN Slice(s, 1, Len(s) - 3) ELSE s

\* one element of enhanceStockData(stocks); nameWords is only part of searchTerms
enhanceStock(stock) ==
  LET enhanced(acronyms, lowerName, lowerSymbol) ==
        [symbol |-> stock.symbol, name |-> stock.name, exchange |-> stock.exchange,
         exchangeShortName |-> stock.exchangeShortName,
         acronyms |-> acronyms,
         searchTerms |->
           <<lowerName>>
           \o SelectSeq(splitSpaces(lowerName), LAMBDA w : Len(w) > 1 /\ w \notin StopWords)
           \o [i \in 1..Len(acronyms) |-> toLowerCase(acronyms[i])]
           \o <<keepAlnum(lowerName), dropSpaces(lowerName),
                lowerSymbol, dropExchangeSuffix(lowerSymbol)>>]
  IN enhanced(extractAcronyms(stock.name), toLowerCase(stock.name), toLowerCase(stock.symbol))

enhanceStockData(stocks) == [i \in 1..Len(stocks) |-> enhanceStock(stocks[i])]

----------------------------------------------------------------------------
(* Entity parser (extract-entities.ts)                                     *)

S_response == <<"r","e","s","p","o","n","s","e",":">>
S_queryEcho == <<"Q","u","e","r","y"," ","-","-">>
S_userQueryEcho == <<"H","e","r","e"," ","i","s"," ","t","h","e"," ","u","s","e","r"," ","q","u","e","r","y",":">>
NewLine == <<"\n">>

\* strs.join(sep)
RECURSIVE joinWith(_, _)
joinWith(strs, sep) ==
  IF Len(strs) = 0 THEN <<>>
  ELSE IF Len(strs) = 1 THEN strs[1]
  ELSE strs[1] \o sep \o joinWith(Tail(strs), sep)

\* /^[A-Z0-9.]+$/.test(s)
isTicker(s) ==
  Len(s) > 0 /\ \A i \in 1..Len(s) : s[i] \in UpperSet \cup DigitChars \cup {"."}

allUpper(s, from, to) == to >= from /\ \A k \in from..to : s[k] \in UpperSet

\* \[([A-Z]+)\/([A-Z]+)\] matches s from position p: the closing position, 0 for none
dualBracketEnd(s, p) ==
  LET ends == {c \in (p + 1)..Len(s) :
                 /\ s[p] = "["
                 /\ s[c] = "]"
                 /\ \E m \in (p + 1)..(c - 1) :
                       s[m] = "/" /\ allUpper(s, p + 1, m - 1) /\ allUpper(s, m + 1, c - 1)}
  IN IF ends = {} THEN 0 ELSE CHOOSE c \in ends : TRUE

\* \[([A-Z]+)\] matches s from position p: the closing position, 0 for none
singleBracketEnd(s, p) ==
  LET ends == {c \in (p + 1)..Len(s) : s[p] = "[" /\ s[c] = "]" /\ allUpper(s, p + 1, c - 1)}
  IN IF ends = {} THEN 0 ELSE CHOOSE c \in ends : TRUE

firstNonSpaceAfter(s, e) ==
  LET rest == {k \in (e + 1)..Len(s) : s[k] \notin SpaceChars}
  IN IF rest = {} THEN 0 ELSE CHOOSE k \in rest : \A j \in rest : k <= j

\* s.match(/(.+)\s*BRACKET/): the leftmost start, the longest (.+) from it
\* (the dot matches no line break), then white space, then the bracket
bracketMatch(s, BracketEnd(_, _)) ==
  LET matched(i, e, p) ==
        [found |-> TRUE, group1 |-> Slice(s, i, e), open |-> p, close |-> BracketEnd(s, p)]
      longest(i, es) ==
        \* the longest (.+) from the start i
        matched(i, CHOOSE x \in es : \A y \in es : x >= y,
                firstNonSpaceAfter(s, CHOOSE x \in es : \A y \in es : x >= y))
      leftmost(cands, i) == longest(i, {c[2] : c \in {d \in cands : d[1] = i}})
      first(cands, starts) ==
        IF cands = {} THEN [found |-> FALSE, group1 |-> <<>>, open |-> 0, close |-> 0]
        ELSE leftmost(cands, CHOOSE x \in starts : \A y \in starts : x <= y)
      pick(cands) == first(cands, {c[1] : c \in cands})
  IN pick({ie \in (1..Len(s)) \X (1..Len(s)) :
             /\ ie[1] <= ie[2]
             /\ \A k \in ie[1]..ie[2] : s[k] # "\n"
             /\ \E p \in {firstNonSpaceAfter(s, ie[2])} : p # 0 /\ BracketEnd(s, p) # 0})

\* the entities of "Stock Name [Exchange1/Exchange2]", were an entity with
\* the name and exchange of the one before it not pushed again
multiExchangeEntities_Merged(entity, multi) ==
  LET both(name, exchange1, exchange2) ==
        <<[name |-> name, symbol |-> <<>>, exchange |-> exchange1, originalText |-> entity]>>
        \o (IF exchange2 = exchange1 THEN <<>>
            ELSE <<[name |-> name, symbol |-> <<>>, exchange |-> exchange2,
                    originalText |-> entity]>>)
      at(slash) ==
        both(trim(multi.group1), trim(Slice(entity, multi.open + 1, slash - 1)),
             trim(Slice(entity, slash + 1, multi.close - 1)))
  IN at(CHOOSE m \in (multi.open + 1)..(multi.close - 1) : entity[m] = "/")

\* lines 289-310: the two entities of "Stock Name [Exchange1/Exchange2]"
multiExchangeEntities(entity, multi) ==
  LET both(name, slash) ==
        <<[name |-> name, symbol |-> <<>>,
           exchange |-> trim(Slice(entity, multi.open + 1, slash - 1)),
           originalText |-> entity],
          [name |-> name, symbol |-> <<>>,
           exchange |-> trim(Slice(entity, slash + 1, multi.close - 1)),
           originalText |-> entity]>>
  IN both(trim(multi.group1),
          CHOOSE m \in (multi.open + 1)..(multi.close - 1) : entity[m] = "/")

\* lines 312-331: the entity of "Stock Name [EXCHANGE]", else the bare name
singleExchangeEntities(entity, single) ==
  IF single.found
  THEN <<[name |-> trim(single.group1), symbol |-> <<>>,
          exchange |-> trim(Slice(entity, single.open + 1, single.close - 1)),
          originalText |-> entity]>>
  ELSE <<[name |-> entity, symbol |-> <<>>, exchange |-> <<>>, originalText |-> entity]>>

\* lines 289-331 of the loop body, given the match of the dual pattern
bracketEntities(entity, multi) ==
  IF multi.found THEN multiExchangeEntities(entity, multi)
  ELSE singleExchangeEntities(entity, bracketMatch(entity, singleBracketEnd))

\* the entities of a token, were lines 277-287 missing
parseToken_NoTicker(entity) ==
  IF entity = <<>> THEN <<>>
  ELSE bracketEntities(entity, bracketMatch(entity, dualBracketEnd))

\* the entities one comma-separated token contributes
parseToken(entity) ==
  IF entity = <<>> THEN <<>>
  ELSE IF isTicker(entity)
  THEN <<[name |-> entity, symbol |-> entity, exchange |-> <<>>, originalText |-> entity]>>
  ELSE bracketEntities(entity, bracketMatch(entity, dualBracketEnd))

\* strs.map(trim), then parseToken of each, concatenated
RECURSIVE parseTokens(_)
parseTokens(tokens) ==
  IF Len(tokens) = 0 THEN <<>>
  ELSE parseToken(trim(Head(tokens))) \o parseTokens(Tail(tokens))

RECURSIVE parseGroups(_)
parseGroups(groups) ==
  IF Len(groups) = 0 THEN <<>>
  ELSE parseTokens(splitChar(trim(Head(groups)), ",")) \o parseGroups(Tail(groups))

parseExtractedEntities(entitiesText) ==
  LET unlabel(trimmed) ==
        IF startsWith(toLowerCase(trimmed), S_response)
        THEN trim(Slice(trimmed, 10, Len(trimmed))) ELSE trimmed
      cleanedText(unlabelled) ==
        trim(joinWith(SelectSeq(splitChar(unlabelled, "\n"),
                                LAMBDA l : ~includes(l, S_queryEcho)
                                           /\ ~includes(l, S_userQueryEcho)),
                      NewLine))
      parsed(trimmed) ==
        IF trimmed = <<>> THEN <<>>
        ELSE SelectSeq(parseGroups(splitChar(cleanedText(unlabel(trimmed)), ";")),
                       LAMBDA e : e.name # <<>>)
  IN parsed(trim(entitiesText))

----------------------------------------------------------------------------
(* The bounded inputs                                                      *)

\* Securities as /api/stock-list returns them (symbol, name, exchange and
\* exchangeShortName all non-empty, route.ts line 38)
RawCatalog ==
  <<[symbol |-> <<"B","A","B","A">>,
     name |-> <<"A","l","i","b","a","b","a"," ","G","r","o","u","p">>,
     exchange |-> <<"N","e","w"," ","Y","o","r","k"," ","S","t","o","c","k"," ","E","x","c","h","a","n","g","e">>,
     exchangeShortName |-> <<"N","Y","S","E">>],
    [symbol |-> <<"9","9","8","8",".","H","K">>,
     name |-> <<"A","l","i","b","a","b","a"," ","G","r","o","u","p">>,
     exchange |-> <<"H","K","S","E">>,
     exchangeShortName |-> <<"H","K","S","E">>],
    [symbol |-> <<"B","A","B","A",".","N">>,
     name |-> <<"A","l","i","b","a","b","a"," ","G","r","o","u","p">>,
     exchange |-> <<"N","e","w"," ","Y","o","r","k"," ","S","t","o","c","k"," ","E","x","c","h","a","n","g","e">>,
     exchangeShortName |-> <<"N","Y","S","E">>],
    [symbol |-> <<"9","9","8","8">>,
     name |-> <<"A","l","i","b","a","b","a"," ","G","r","o","u","p">>,
     exchange |-> <<"H","K","S","E">>,
     exchangeShortName |-> <<"H","K","S","E">>],
    [symbol |-> <<"0","9","4","3",".","H","K">>,
     name |-> <<"e","F","o","r","c","e">>,
     exchange |-> <<"H","K","S","E">>,
     exchangeShortName |-> <<"H","K","S","E">>]>>

\* A leveraged product on the same company, as the listing service also
\* returns them
LeveragedStock ==
  [symbol |-> <<"B","A","B","L">>,
   name |-> <<"A","l","i","b","a","b","a"," ","L","o","n","g">>,
   exchange |-> <<"N","e","w"," ","Y","o","r","k"," ","S","t","o","c","k"," ","E","x","c","h","a","n","g","e">>,
   exchangeShortName |-> <<"N","Y","S","E">>]

\* The securities of the direct calls of prioritizeByGeography
Catalog == enhanceStockData(RawCatalog)

Leveraged == enhanceStockData(<<LeveragedStock>>)[1]

\* Outputs of the entity-extraction oracle
OracleTexts ==
  <<<<"A","l","i","b","a","b","a"," ","[","H","K","E","X","/","N","Y","S","E","]">>,
    <<"A","l","i","b","a","b","a",","," ","B","A","B","A">>,
    <<"0","0","9","4","3">>,
    <<"0","9","8","8">>,
    <<"T","e","n","c","e","n","t">>,
    <<"A","l","i","b","a","b","a"," ","[","L","S","E","]">>,
    <<>>>>

\* the longest flat list of a direct prioritizeByGeography call
MaxFlat == 2

\* the sequences of at most n distinct indices of 1..m
injectiveSeqs(m, n) ==
  {s \in UNION {[1..k -> 1..m] : k \in 0..n} :
     \A a, b \in 1..Len(s) : a # b => s[a] # s[b]}

FlatLists ==
  LET listsOf(catalog) ==
        {[i \in 1..Len(ix) |-> catalog[ix[i]]] : ix \in injectiveSeqs(Len(catalog), MaxFlat)}
  IN listsOf(Catalog)
     \* and the leveraged product, alone or next to one of them
     \cup {<<Leveraged>>}
     \cup {<<Leveraged, Catalog[c]>> : c \in 1..Len(Catalog)}
     \cup {<<Catalog[c], Leveraged>> : c \in 1..Len(Catalog)}

EntityLists == {parseExtractedEntities(OracleTexts[i]) : i \in 1..Len(OracleTexts)}

\* lines 158-708: the call after the reset of the maps, on maps that start
\* empty: the returned list, the entries written, the pushes of each entity
prioritizeLoop(stocks, geography, entities, engine) ==
  LET start == [tickers |-> <<>>, entityMap |-> NoMap, debugMap |-> NoMap, pushed |-> <<>>]
      loop[k \in 0..Len(entities)] ==
        IF k = 0 THEN start
        ELSE applyPushes(loop[k - 1], resolveEntity(stocks, geography, entities[k], engine))
  IN IF Len(entities) = 0
     THEN [start EXCEPT !.tickers = [i \in 1..Len(stocks) |-> stocks[i].symbol]]
     ELSE loop[Len(entities)]

\* The loop is a function of the arguments of the call: its results over the
\* bounded inputs are tabulated once
prioritized ==
  [en \in SortEngines |-> [g \in Geographies |-> [es \in EntityLists |->
     [f \in FlatLists |-> prioritizeLoop(f, g, es, en)] @@ [x \in {} |-> x]]]]

loopOf(stocks, geography, entities, engine) ==
  IF /\ engine \in SortEngines /\ geography \in Geographies
     /\ entities \in EntityLists /\ stocks \in FlatLists
  THEN prioritized[engine][geography][entities][stocks]
  ELSE prioritizeLoop(stocks, geography, entities, engine)

\* The maps after a call: those of the reset, with the entries the loop set
callOn(fresh, written) ==
  [tickers |-> written.tickers,
   entityMap |-> written.entityMap @@ fresh.entityMap,
   debugMap |-> written.debugMap @@ fresh.debugMap,
   pushed |-> written.pushed]

\* prioritizeByGeography(stocks, geography, entities), reading and writing
\* the two module-level maps: the returned tickers and the maps after the
\* call, which are the maps of the reset with the entries the loop sets
prioritizeByGeography(stocks, geography, entities, engine, oldEntityMap, oldDebugMap) ==
  callOn(resetMaps(oldEntityMap, oldDebugMap), loopOf(stocks, geography, entities, engine))

----------------------------------------------------------------------------
(* Stock cache: persistence (stock-cache.ts)                               *)

CACHE_VERSION == <<"1",".","3">>

\* The chunk capacity, scaled to the corpus of the model so that it spans
\* several chunks, as the corpus of the service does with the capacity of
\* 500 * 1024 bytes and the minimum of 100 items per chunk
MAX_CHUNK_SIZE == 80
MinItemsPerChunk == 2

minimizeStock(stock) ==
  [s |-> stock.symbol, n |-> stock.name, e |-> stock.exchangeShortName]

expandStock(minStock) ==
  [symbol |-> minStock.s, name |-> minStock.n,
   exchangeShortName |-> minStock.e, exchange |-> <<>>]

\* memoryStockCache: null, or a list of enhanced stocks (an empty list is
\* not null)
NullCache == [isNull |-> TRUE, stocks |-> <<>>]

cacheOf(enhancedStocks) == [isNull |-> FALSE, stocks |-> enhancedStocks]

\* localStorage: each key holds no item (<<>>) or one (<<item>>); items[i + 1]
\* is the key of chunk i
EmptyStorage == [version |-> <<>>, timestamp |-> <<>>, chunks |-> <<>>, items |-> <<>>]

\* JSON.stringify(data).length for a list of minimal stocks
RECURSIVE jsonItemsLength(_)
jsonItemsLength(data) ==
  IF Len(data) = 0 THEN 0
  ELSE 22 + Len(Head(data).s) + Len(Head(data).n) + Len(Head(data).e)
       + jsonItemsLength(Tail(data))

jsonLength(data) ==
  2 + jsonItemsLength(data) + (IF Len(data) > 1 THEN Len(data) - 1 ELSE 0)

\* Math.max(minimum, Math.floor(MAX_CHUNK_SIZE / (sampleJson.length / 10)))
itemsPerChunk(data) ==
  LET atLeast(fitting) == IF fitting < MinItemsPerChunk THEN MinItemsPerChunk ELSE fitting
  IN atLeast((MAX_CHUNK_SIZE * 10) \div jsonLength(sliceFirst(data, 10)))

splitIntoChunks(data) ==
  LET cut(size) ==
        [c \in 1..((Len(data) + size - 1) \div size) |->
           SubSeq(data, (c - 1) * size + 1,
                  IF c * size < Len(data) THEN c * size ELSE Len(data))]
  IN cut(itemsPerChunk(data))

\* clearStockCache on localStorage (lines 395-412)
clearStorage(storage) ==
  [version |-> <<>>, timestamp |-> <<>>, chunks |-> <<>>,
   items |-> IF storage.chunks # <<>> THEN <<>> ELSE storage.items]

\* clearStockCache(): the memory cache and localStorage after it
clearStockCache(storage, browser) ==
  [memory |-> NullCache,
   storage |-> IF browser THEN clearStorage(storage) ELSE storage]

\* What /api/stock-list returns when it answers
FetchedLists == {RawCatalog, <<>>}

\* the chunks of the corpus of the service
CatalogChunks == splitIntoChunks([i \in 1..Len(RawCatalog) |-> minimizeStock(RawCatalog[i])])

RECURSIVE concatAll(_)
concatAll(lists) == IF Len(lists) = 0 THEN <<>> ELSE Head(lists) \o concatAll(Tail(lists))

\* the lists loadStocksFromCache expands from the chunks localStorage kept
StoredLists ==
  {[i \in 1..Len(kept) |-> expandStock(kept[i])] :
     kept \in {concatAll([c \in 1..Len(CatalogChunks) |->
                            IF c \in keep THEN CatalogChunks[c] ELSE <<>>]) :
               keep \in SUBSET (1..Len(CatalogChunks))}}

\* enhanceStockData over the lists of the model, tabulated once
enhanced ==
  [stocks \in FetchedLists \cup StoredLists |-> enhanceStockData(stocks)] @@ [x \in {} |-> x]

enhanceOf(stocks) ==
  IF stocks \in FetchedLists \/ stocks \in StoredLists
  THEN enhanced[stocks] ELSE enhanceStockData(stocks)

\* The setItem calls of one saveStocksToCache that throw: the first one
\* (localStorage refuses every write), or those of the chunks in lost
SaveFailures ==
  {[storageFails |-> TRUE, lost |-> {}]}
  \cup {[storageFails |-> FALSE, lost |-> l] : l \in SUBSET (0..(Len(CatalogChunks) - 1))}

\* saveStocksToCache(stocks): the memory cache and localStorage after it
saveStocksToCache(stocks, storage, browser, failure) ==
  LET write(chunks) ==
        [version |-> <<CACHE_VERSION>>, timestamp |-> <<"fresh">>,
         chunks |-> <<Len(chunks)>>,
         items |-> [i \in 1..Len(chunks) |->
                      IF (i - 1) \in failure.lost THEN <<>> ELSE <<chunks[i]>>]]
  IN IF ~browser
     THEN [memory |-> cacheOf(enhanceOf(stocks)), storage |-> storage]
     ELSE IF failure.storageFails
     THEN [memory |-> NullCache, storage |-> clearStorage(storage)]
     ELSE [memory |-> NullCache,
           storage |-> write(splitIntoChunks([i \in 1..Len(stocks) |-> minimizeStock(stocks[i])]))]

\* loadStocksFromCache(): what it returns (null, or a list of enhanced
\* stocks) and the memory cache after it
loadStocksFromCache(memory, storage, browser) ==
  LET null == [isNull |-> TRUE, stocks |-> <<>>, memory |-> memory]
      found(enhancedStocks) ==
        [isNull |-> FALSE, stocks |-> enhancedStocks, memory |-> cacheOf(enhancedStocks)]
      loaded(minimalStocks) ==
        IF Len(minimalStocks) = 0 THEN null
        ELSE found(enhanceOf([i \in 1..Len(minimalStocks) |-> expandStock(minimalStocks[i])]))
  IN IF ~memory.isNull
     THEN [isNull |-> FALSE, stocks |-> memory.stocks, memory |-> memory]
     ELSE IF ~browser THEN null
     ELSE IF storage.version # <<CACHE_VERSION>> THEN null
     ELSE IF storage.timestamp = <<>> \/ storage.chunks = <<>> THEN null
     ELSE IF storage.timestamp = <<"expired">> THEN null
     ELSE loaded(concatAll([i \in 1..storage.chunks[1] |->
                              IF storage.items[i] # <<>> THEN storage.items[i][1] ELSE <<>>]))

----------------------------------------------------------------------------
(* Matcher (match-stock-symbols.ts)                                        *)

\* the results of one fuse.search: the stocks at the positions in picks
MaxFuzzy == 1

FuzzyPicks(corpusSize) == injectiveSeqs(corpusSize, MaxFuzzy)

fuzzyMatchStocks(companyName, stocks, picks) ==
  [i \in 1..Len(picks) |-> stocks[picks[i]]]

\* findDirectMatches: allMatches is a Set of the stocks, in insertion order
findDirectMatches(query, stocks) ==
  LET positions(Match(_)) ==
        SelectSeq([i \in 1..Len(stocks) |-> i], LAMBDA i : Match(stocks[i]))
      all(normalizedQuery, cleanedQuery) ==
        positions(LAMBDA stock : toLowerCase(stock.symbol) = normalizedQuery)
        \o positions(LAMBDA stock :
             \E a \in 1..Len(stock.acronyms) :
                toLowerCase(stock.acronyms[a]) = normalizedQuery)
        \o positions(LAMBDA stock : arrayIncludes(stock.searchTerms, normalizedQuery))
        \o positions(LAMBDA stock :
             \E k \in 1..Len(stock.searchTerms) :
                dropSpaces(keepAlnum(stock.searchTerms[k])) = cleanedQuery)
        \o (IF Len(normalizedQuery) > 2
            THEN positions(LAMBDA stock : includes(toLowerCase(stock.name), normalizedQuery))
            ELSE <<>>)
      from(normalizedQuery) ==
        all(normalizedQuery, dropSpaces(keepAlnum(normalizedQuery)))
      arrayFrom(set) == [i \in 1..Len(set) |-> stocks[set[i]]]
  IN arrayFrom(valuesOf(dedupe(from(trim(toLowerCase(query))))))

\* line 77: the entity has fewer than three matches, so fuse.search runs
searchesFuzzy(matched) == Cardinality(symbolsOf(matched)) < 3

\* the exact and the direct matches of one entity, were the direct matches
\* added without the filter of line 62
exactAndDirect_AllDirect(entity, enhancedStocks) ==
  (IF entity.symbol # <<>>
   THEN SelectSeq(enhancedStocks,
                  LAMBDA stock : toUpperCase(stock.symbol) = toUpperCase(entity.symbol))
   ELSE <<>>)
  \o findDirectMatches(entity.name, enhancedStocks)

\* lines 36-74: the exact and the direct matches of one entity
exactAndDirect(entity, enhancedStocks) ==
  LET withDirect(exactMatches) ==
        exactMatches
        \o SelectSeq(findDirectMatches(entity.name, enhancedStocks),
                     LAMBDA match : match.symbol \notin symbolsOf(exactMatches))
  IN withDirect(IF entity.symbol # <<>>
                THEN SelectSeq(enhancedStocks,
                               LAMBDA stock : toUpperCase(stock.symbol) = toUpperCase(entity.symbol))
                ELSE <<>>)

\* lines 76-94: the matches of one entity with the fuzzy matches added
withFuzzy(matchedSoFar, companyName, enhancedStocks, picks) ==
  IF searchesFuzzy(matchedSoFar)
  THEN matchedSoFar \o SelectSeq(fuzzyMatchStocks(companyName, enhancedStocks, picks),
                                 LAMBDA match : match.symbol \notin symbolsOf(matchedSoFar))
  ELSE matchedSoFar

\* The answers of /api/stock-list: a failure, or a list of stocks
FetchOutcomes ==
  {[ok |-> FALSE, stocks |-> <<>>]} \cup {[ok |-> TRUE, stocks |-> s] : s \in FetchedLists}

\* lines 15-26 of matchStockSymbols, from the answer of fetchStockData on:
\* the corpus it matches against (or the error it throws), and the caches
corpusAfterFetch(memory, storage, browser, fetch, failure) ==
  LET result(thrown, loaded, store, fetched) ==
        [thrown |-> thrown, stocks |-> loaded.stocks, memory |-> loaded.memory,
         storage |-> store, cached |-> FALSE, fetched |-> fetched]
      reload(saved) ==
        \* "Load from cache again"
        LET after(again) == result(again.isNull, again, saved.storage, TRUE)
        IN after(loadStocksFromCache(saved.memory, saved.storage, browser))
  IN IF ~fetch.ok
     THEN result(TRUE, [stocks |-> <<>>, memory |-> memory], storage, FALSE)
     ELSE reload(saveStocksToCache(fetch.stocks, storage, browser, failure))

\* lines 10-26 of matchStockSymbols: the corpus it matches against (or the
\* error it throws), and the caches after it
obtainCorpus(memory, storage, browser, fetch, failure) ==
  LET start(first) ==
        IF ~first.isNull
        THEN [thrown |-> FALSE, stocks |-> first.stocks, memory |-> first.memory,
              storage |-> storage, cached |-> TRUE, fetched |-> FALSE]
        ELSE corpusAfterFetch(first.memory, storage, browser, fetch, failure)
  IN start(loadStocksFromCache(memory, storage, browser))

----------------------------------------------------------------------------
(* Grouping (extract-tickers.ts)                                           *)

\* entity.originalText || entity.name
originalTextOf(entity) ==
  IF entity.originalText # <<>> THEN entity.originalText ELSE entity.name

\* the groups, were a ticker already in the group of its text not pushed again
groupTickers_SkipRepeats(prioritizedTickers, tickerEntityMap) ==
  LET put(groups, originalText, ticker) ==
        IF \E g \in 1..Len(groups) : groups[g].originalText = originalText
        THEN [g \in 1..Len(groups) |->
                IF /\ groups[g].originalText = originalText
                   /\ \A i \in 1..Len(groups[g].tickers) : groups[g].tickers[i] # ticker
                THEN [groups[g] EXCEPT !.tickers = Append(@, ticker)]
                ELSE groups[g]]
        ELSE Append(groups, [originalText |-> originalText, tickers |-> <<ticker>>])
      add(groups, ticker) ==
        IF ticker \notin DOMAIN tickerEntityMap THEN groups
        ELSE put(groups, originalTextOf(tickerEntityMap[ticker]), ticker)
      f[k \in 0..Len(prioritizedTickers)] ==
        IF k = 0 THEN <<>> ELSE add(f[k - 1], prioritizedTickers[k])
  IN f[Len(prioritizedTickers)]

\* lines 34-72: the groups, in the order their original texts were first seen
groupTickers(prioritizedTickers, tickerEntityMap) ==
  LET put(groups, originalText, ticker) ==
        IF \E g \in 1..Len(groups) : groups[g].originalText = originalText
        THEN [g \in 1..Len(groups) |->
                IF groups[g].originalText = originalText
                THEN [groups[g] EXCEPT !.tickers = Append(@, ticker)]
                ELSE groups[g]]
        ELSE Append(groups, [originalText |-> originalText, tickers |-> <<ticker>>])
      add(groups, ticker) ==
        IF ticker \notin DOMAIN tickerEntityMap THEN groups
        ELSE put(groups, originalTextOf(tickerEntityMap[ticker]), ticker)
      f[k \in 0..Len(prioritizedTickers)] ==
        IF k = 0 THEN <<>> ELSE add(f[k - 1], prioritizedTickers[k])
  IN f[Len(prioritizedTickers)]

\* Outputs of the entity-extraction oracle in the resolutions of the model
ResolutionTexts ==
  <<<<"A","l","i","b","a","b","a"," ","[","H","K","E","X","/","N","Y","S","E","]">>,
    <<"A","l","i","b","a","b","a"," ","[","H","K","E","X","/","N","Y","S","E","]",","," ","B","A","B","A">>,
    <<>>>>

ResolutionEntities ==
  [t \in 1..Len(ResolutionTexts) |-> parseExtractedEntities(ResolutionTexts[t])]
  @@ [x \in {} |-> x]

\* The corpora loadStocksFromCache can return in the model
Corpora == {enhanced[stocks] : stocks \in FetchedLists \cup StoredLists}

\* The exact and direct matches of the entities of an oracle text on a
\* corpus are a function of the two: tabulated once
directlyMatched ==
  [t \in 1..Len(ResolutionTexts) |-> [corpus \in Corpora |->
     [k \in 1..Len(ResolutionEntities[t]) |-> exactAndDirect(ResolutionEntities[t][k], corpus)]]
     @@ [x \in {} |-> x]]

\* lines 30-101 of matchStockSymbols on a loaded corpus: the matched stocks,
\* the symbols each entity pushed onto them, and whether fuse.search ran for
\* an entity
matchOn(t, enhancedStocks, picks) ==
  LET returned(collected, searched) ==
        [matchedStocks |-> concatAll(collected),
         collected |-> [k \in 1..Len(collected) |->
                          [i \in 1..Len(collected[k]) |-> collected[k][i].symbol]],
         searched |-> searched]
      loop(entities, direct) ==
        returned([k \in 1..Len(entities) |->
                    withFuzzy(direct[k], entities[k].name, enhancedStocks, picks)],
                 \E k \in 1..Len(entities) : searchesFuzzy(direct[k]))
  IN loop(ResolutionEntities[t], directlyMatched[t][enhancedStocks])

\* Step 2 is a function of its inputs: tabulated once
matched ==
  [t \in 1..Len(ResolutionTexts) |-> [corpus \in Corpora |->
     [picks \in FuzzyPicks(Len(corpus)) |-> matchOn(t, corpus, picks)]
     @@ [x \in {} |-> x]]]

\* the non-empty lists Step 2 hands to the prioritizer for an oracle text
MatchedLists(t) ==
  UNION {{matched[t][corpus][picks].matchedStocks : picks \in FuzzyPicks(Len(corpus))} :
         corpus \in Corpora} \ {<<>>}

\* and so is the loop of the prioritizer over them
resolved ==
  [en \in SortEngines |-> [g \in Geographies |-> [t \in 1..Len(ResolutionTexts) |->
     [m \in MatchedLists(t) |-> prioritizeLoop(m, g, ResolutionEntities[t], en)]
     @@ [x \in {} |-> x]]]]

----------------------------------------------------------------------------
(* State                                                                   *)

VARIABLES
  tickerToEntityMap,   \* prioritize-by-geography.ts line 24
  tickerDebugMap,      \* prioritize-by-geography.ts line 42
  memoryStockCache,    \* stock-cache.ts line 18
  localStorage,        \* the items of window.localStorage under the cache keys
  isBrowser,           \* isBrowserEnvironment() of the process running the code
  sortEngine,          \* the sort strategy of the JavaScript engine running the code
  flat,                \* the flat list the direct calls of a session pass
  lastCall,            \* arguments and result of the latest prioritizeByGeography call,
                       \* and whether the maps held entries when it began
  lastRun,             \* arguments and result of the latest extractTickers call
  loadingPromise,      \* stock-cache.ts line 239
  attemptedAutoRefresh,\* stock-cache.ts line 240
  tasks,               \* the asynchronous calls in progress that load the corpus
  probe                \* the latest direct call of a pure function and its result

mapVars == <<tickerToEntityMap, tickerDebugMap>>

cacheVars == <<memoryStockCache, localStorage>>

loadVars == <<loadingPromise, attemptedAutoRefresh, tasks>>

vars ==
  <<tickerToEntityMap, tickerDebugMap, memoryStockCache, localStorage, isBrowser,
    sortEngine, flat, lastCall, lastRun, loadingPromise, attemptedAutoRefresh, tasks,
    probe>>

\* the concurrent asynchronous calls of a session
MaxTasks == 2

Tasks == 1..MaxTasks

\* loadingPromise: null, the pending promise of the call of a task, or a
\* promise that has been resolved
NoPromise == [state |-> "null", of |-> 0]

\* a task makes no call; pc is the await its call is suspended at
\* resolved: what the promise of the task's latest loadStocksWithRetry call
\* resolved with, once it has; retryDelay: the delay of its next wait
NoResolution == [settled |-> FALSE, isNull |-> TRUE, stocks |-> <<>>]

\* what matchStockSymbols returned to a resolution that has not gone on yet
NoMatch == [matchedStocks |-> <<>>, collected |-> <<>>, searched |-> FALSE]

\* match, corpus: the matched stocks of the resolution of the task and the
\* corpus they come from; sawReturn: another resolution has returned since
\* the one of the task began
IdleTask ==
  [pc |-> "idle", retries |-> 0, awaits |-> 0, t |-> 0, geography |-> <<>>,
   retryDelay |-> 0, resolved |-> NoResolution,
   match |-> NoMatch, corpus |-> <<>>, sawReturn |-> FALSE]

\* the module state of stock-cache.ts lines 239-240 after it is loaded
LoaderIdle ==
  /\ loadingPromise = NoPromise
  /\ attemptedAutoRefresh = FALSE
  /\ tasks = [i \in Tasks |-> IdleTask]

NoProbe == [op |-> "none"]

NoCall ==
  [called |-> FALSE, stocks |-> <<>>, geography |-> S_global, entities |-> <<>>,
   returned |-> <<>>, pushed |-> <<>>, hadEntries |-> FALSE]

\* outcome: "error" when extractTickers threw, else "groups"; error: the
\* message of the Error it threw, and cause: that of the Error thrown inside
\* it; matched: the matching loop ran, against the corpus whose symbols are
\* in corpus, and collected holds the symbols it pushed for each entity;
\* prioritized: prioritizeByGeography and the grouping ran, and lastCall is
\* the call of this resolution
NoRun ==
  [called |-> FALSE, outcome |-> "none", error |-> <<>>, cause |-> <<>>,
   groups |-> <<>>, matched |-> FALSE, corpus |-> <<>>, collected |-> <<>>,
   prioritized |-> FALSE]

----------------------------------------------------------------------------
(* Direct calls of prioritizeByGeography                                   *)

InitPrio ==
  /\ tickerToEntityMap = NoMap
  /\ tickerDebugMap = NoMap
  /\ memoryStockCache = NullCache
  /\ localStorage = EmptyStorage
  /\ isBrowser = TRUE
  /\ sortEngine \in SortEngines
  /\ flat \in FlatLists
  /\ lastCall = NoCall
  /\ lastRun = NoRun
  /\ LoaderIdle
  /\ probe = NoProbe

\* A caller invokes prioritizeByGeography(flat, geography, entities)
CallPrioritize ==
  \E geography \in Geographies, entities \in EntityLists :
     \E r \in {prioritizeByGeography(flat, geography, entities, sortEngine,
                                     tickerToEntityMap, tickerDebugMap)} :
        /\ tickerToEntityMap' = r.entityMap
        /\ tickerDebugMap' = r.debugMap
        /\ lastCall' = [called |-> TRUE, stocks |-> flat, geography |-> geography,
                        entities |-> entities, returned |-> r.tickers, pushed |-> r.pushed,
                        hadEntries |-> tickerToEntityMap # NoMap]
        /\ UNCHANGED <<cacheVars, isBrowser, sortEngine, flat, lastRun, loadVars, probe>>

NextPrio == CallPrioritize

SpecPrio == InitPrio /\ [][NextPrio]_vars

----------------------------------------------------------------------------
(* Resolutions: extractTickers and the operations on the cache             *)

InitPipeline ==
  /\ tickerToEntityMap = NoMap
  /\ tickerDebugMap = NoMap
  /\ memoryStockCache = NullCache
  /\ localStorage = EmptyStorage
  /\ isBrowser \in BOOLEAN
  /\ sortEngine \in SortEngines
  /\ flat = <<>>
  /\ lastCall = NoCall
  /\ lastRun = NoRun
  /\ LoaderIdle
  /\ probe = NoProbe

NoFetch == [ok |-> FALSE, stocks |-> <<>>]

NoFailure == [storageFails |-> FALSE, lost |-> {}]

\* the answer of /api/stock-list and the setItem failures are drawn only
\* for the calls that fetch and that write to localStorage
drawn(fetches, fetch, failure) ==
  /\ (~fetches => fetch = NoFetch)
  /\ ((~fetches \/ ~fetch.ok \/ ~isBrowser) => failure = NoFailure)
  /\ (Len(fetch.stocks) = 0 => failure.lost = {})

\* Messages of the Errors thrown in a resolution
S_apiError == <<"API error: 500">>
S_loadFailed == <<"Failed to load stock data after fetching">>
S_failedToExtract == <<"Failed to extract tickers">>

\* what the catch clause of extractTickers throws for the error it caught
topLevelCatch_Rethrow(error) == error

\* lines 75-78: throw new Error("Failed to extract tickers")
topLevelCatch(error) == S_failedToExtract

\* an Error is thrown inside the try block of extractTickers
Thrown(error) ==
  lastRun' = [NoRun EXCEPT !.called = TRUE, !.outcome = "error",
                           !.error = topLevelCatch(error), !.cause = error]

\* extractTickers returns [] before the prioritizer is called
ReturnedEmpty(ran, corpus, collected) ==
  lastRun' = [NoRun EXCEPT !.called = TRUE, !.outcome = "groups", !.matched = ran,
                           !.corpus = corpus, !.collected = collected]

\* Steps 3 to 5 with the groups built from the entity map as it was before
\* the call of the prioritizer
Prioritized_StaleMap(t, geography, corpus, m) ==
  \E p \in {callOn(resetMaps(tickerToEntityMap, tickerDebugMap),
                   resolved[sortEngine][geography][t][m.matchedStocks])} :
     /\ tickerToEntityMap' = p.entityMap
     /\ tickerDebugMap' = p.debugMap
     /\ lastCall' = [called |-> TRUE, stocks |-> m.matchedStocks, geography |-> geography,
                     entities |-> ResolutionEntities[t], returned |-> p.tickers,
                     pushed |-> p.pushed, hadEntries |-> tickerToEntityMap # NoMap]
     /\ lastRun' = [NoRun EXCEPT !.called = TRUE, !.outcome = "groups",
                                 !.groups = groupTickers(p.tickers, tickerToEntityMap),
                                 !.matched = TRUE, !.corpus = corpus,
                                 !.collected = m.collected, !.prioritized = TRUE]

\* Steps 3 to 5 of extractTickers on the matched stocks
Prioritized(t, geography, corpus, m) ==
  \E p \in {callOn(resetMaps(tickerToEntityMap, tickerDebugMap),
                   resolved[sortEngine][geography][t][m.matchedStocks])} :
     /\ tickerToEntityMap' = p.entityMap
     /\ tickerDebugMap' = p.debugMap
     /\ lastCall' = [called |-> TRUE, stocks |-> m.matchedStocks, geography |-> geography,
                     entities |-> ResolutionEntities[t], returned |-> p.tickers,
                     pushed |-> p.pushed, hadEntries |-> tickerToEntityMap # NoMap]
     /\ lastRun' = [NoRun EXCEPT !.called = TRUE, !.outcome = "groups",
                                 !.groups = groupTickers(p.tickers, p.entityMap),
                                 !.matched = TRUE, !.corpus = corpus,
                                 !.collected = m.collected, !.prioritized = TRUE]

\* Step 2 onwards, on the corpus matchStockSymbols obtained
Matched(t, geography, got) ==
  \E picks \in FuzzyPicks(Len(got.stocks)) :
     \E m \in {matched[t][got.stocks][picks]} :
        \* the results of fuse.search are drawn only for the calls that search
        /\ m.searched \/ picks = <<>>
        /\ \E corpus \in {[i \in 1..Len(got.stocks) |-> got.stocks[i].symbol]} :
              IF Len(m.matchedStocks) = 0
              THEN /\ ReturnedEmpty(TRUE, corpus, m.collected)
                   /\ UNCHANGED <<mapVars, lastCall>>
              ELSE Prioritized(t, geography, corpus, m)

\* extractTickers(query, geography, language): one resolution.  t = 0 is a
\* failed request to the entity-extraction oracle, any other t the oracle
\* answering ResolutionTexts[t].
ExtractTickers ==
  \E t \in 0..Len(ResolutionTexts), geography \in Geographies :
     /\ UNCHANGED <<isBrowser, sortEngine, flat, loadVars, probe>>
     /\ IF t = 0
        THEN /\ Thrown(S_apiError)
             /\ UNCHANGED <<mapVars, cacheVars, lastCall>>
        ELSE IF Len(ResolutionEntities[t]) = 0
        THEN /\ ReturnedEmpty(FALSE, <<>>, <<>>)
             /\ UNCHANGED <<mapVars, cacheVars, lastCall>>
        ELSE \E fetch \in FetchOutcomes, failure \in SaveFailures :
                \E got \in {obtainCorpus(memoryStockCache, localStorage, isBrowser,
                                         fetch, failure)} :
                   /\ drawn(~got.cached, fetch, failure)
                   /\ memoryStockCache' = got.memory
                   /\ localStorage' = got.storage
                   /\ IF got.thrown
                      THEN /\ Thrown(IF got.fetched THEN S_loadFailed ELSE S_apiError)
                           /\ UNCHANGED <<mapVars, lastCall>>
                      ELSE Matched(t, geography, got)

\* refreshStockData(): fetches the list again and saves it
RefreshStockData ==
  \E fetch \in FetchOutcomes, failure \in SaveFailures :
     /\ drawn(TRUE, fetch, failure)
     /\ fetch.ok
     /\ \E saved \in {saveStocksToCache(fetch.stocks, localStorage, isBrowser, failure)} :
           /\ memoryStockCache' = saved.memory
           /\ localStorage' = saved.storage
     /\ UNCHANGED <<mapVars, isBrowser, sortEngine, flat, lastCall, lastRun, loadVars, probe>>

\* clearStockCache()
ClearStockCache ==
  /\ \E cleared \in {clearStockCache(localStorage, isBrowser)} :
        /\ memoryStockCache' = cleared.memory
        /\ localStorage' = cleared.storage
  /\ UNCHANGED <<mapVars, isBrowser, sortEngine, flat, lastCall, lastRun, loadVars, probe>>

\* DEFAULT_CACHE_EXPIRATION passes after the timestamp was stored
CacheExpires ==
  /\ localStorage.timestamp = <<"fresh">>
  /\ localStorage' = [localStorage EXCEPT !.timestamp = <<"expired">>]
  /\ UNCHANGED <<mapVars, memoryStockCache, isBrowser, sortEngine, flat, lastCall, lastRun,
                 loadVars, probe>>

\* The page is loaded again: the module state starts over, localStorage stays
PageReload ==
  /\ tickerToEntityMap' = NoMap
  /\ tickerDebugMap' = NoMap
  /\ memoryStockCache' = NullCache
  /\ lastCall' = NoCall
  /\ lastRun' = NoRun
  /\ UNCHANGED <<localStorage, isBrowser, sortEngine, flat, loadVars, probe>>

NextPipeline ==
  \/ ExtractTickers
  \/ RefreshStockData
  \/ ClearStockCache
  \/ CacheExpires
  \/ PageReload

SpecPipeline == InitPipeline /\ [][NextPipeline]_vars

----------------------------------------------------------------------------
(* Concurrent loads of the corpus: loadStocksWithRetry (stock-cache.ts)    *)
(* and the resolutions, each call suspended at its awaits                  *)

\* maxRetries = 3 and retryDelay = 1000, the defaults every caller leaves
maxRetries == 3

initialRetryDelay == 1000

\* resolve(result) with what loadStocksFromCache returned
resolution(result) ==
  [settled |-> TRUE, isNull |-> result.isNull,
   stocks |-> [n \in 1..Len(result.stocks) |-> result.stocks[n].symbol]]

\* The geography of the resolutions that run next to the loads; the load of
\* the corpus does not read it
LoadGeographies == {S_global}

\* The setItem failures of the saves that run next to the loads: none, or
\* localStorage refusing every write
LoadFailures == {failure \in SaveFailures : failure.lost = {}}

InitLoad ==
  /\ tickerToEntityMap = NoMap
  /\ tickerDebugMap = NoMap
  /\ memoryStockCache = NullCache
  /\ localStorage = EmptyStorage
  /\ isBrowser \in BOOLEAN
  /\ sortEngine = "binary"
  /\ flat = <<>>
  /\ lastCall = NoCall
  /\ lastRun = NoRun
  /\ LoaderIdle
  /\ probe = NoProbe

\* the tasks whose call has a request for /api/stock-list in flight
fetchingTasks == {i \in Tasks : tasks[i].pc \in {"refreshing", "fetching"}}

\* the tasks whose call loads the corpus itself, between its requests too
loadingTasks == {i \in Tasks : tasks[i].pc \in {"refreshing", "backoff", "fetching"}}

\* resolve(result) of the promise of task i: the calls awaiting it go on,
\* and the call of task i returns
settled(i, result) ==
  [j \in Tasks |->
     IF j = i \/ (tasks[j].pc = "awaiting" /\ tasks[j].awaits = i)
     THEN [IdleTask EXCEPT !.resolved = resolution(result)]
     ELSE tasks[j]]

\* loadStocksWithRetry(3, 1000, forceRefresh) up to its first await
CallLoadStocksWithRetry(i) ==
  \E forceRefresh \in BOOLEAN :
     /\ tasks[i].pc = "idle"
     /\ IF loadingPromise.state # "null" /\ ~forceRefresh
        THEN \* lines 249-252: the caller awaits the promise it is returned
             /\ tasks' = IF loadingPromise.state = "pending"
                         THEN [tasks EXCEPT ![i] = [IdleTask EXCEPT !.pc = "awaiting",
                                                      !.awaits = loadingPromise.of]]
                         ELSE tasks
             /\ UNCHANGED <<loadingPromise, memoryStockCache>>
        ELSE \E result \in {loadStocksFromCache(memoryStockCache, localStorage, isBrowser)} :
                /\ memoryStockCache' = result.memory
                /\ IF ~result.isNull /\ ~forceRefresh
                   THEN \* lines 260-265 run inside the executor, before the
                        \* assignment of line 254 stores the resolved promise
                        /\ loadingPromise' = [state |-> "settled", of |-> i]
                        /\ tasks' = [tasks EXCEPT ![i] = [IdleTask EXCEPT !.resolved =
                                                                      resolution(result)]]
                   ELSE \* line 272: await refreshStockData()
                        /\ loadingPromise' = [state |-> "pending", of |-> i]
                        /\ tasks' = [tasks EXCEPT ![i] = [IdleTask EXCEPT !.pc = "refreshing",
                                                                      !.retryDelay = initialRetryDelay]]
     /\ UNCHANGED <<mapVars, localStorage, isBrowser, sortEngine, flat, lastCall, lastRun,
                    attemptedAutoRefresh, probe>>

\* the loop of task i without the retries++ of line 288
RefreshReturns_NoIncrement(i) ==
  \E fetch \in FetchOutcomes, failure \in LoadFailures :
     /\ tasks[i].pc = "refreshing"
     /\ drawn(TRUE, fetch, failure)
     /\ \E saved \in {IF fetch.ok
                        THEN saveStocksToCache(fetch.stocks, localStorage, isBrowser, failure)
                        ELSE [memory |-> memoryStockCache, storage |-> localStorage]} :
           \E result \in {IF fetch.ok
                            THEN loadStocksFromCache(saved.memory, saved.storage, isBrowser)
                            ELSE [isNull |-> TRUE, stocks |-> <<>>, memory |-> saved.memory]} :
              /\ memoryStockCache' = result.memory
              /\ localStorage' = saved.storage
              /\ IF ~result.isNull \/ tasks[i].retries + 1 >= maxRetries
                 THEN \* lines 276-282 and lines 297-300
                      /\ attemptedAutoRefresh' = TRUE
                      /\ loadingPromise' = NoPromise
                      /\ tasks' = settled(i, result)
                 ELSE \* lines 288-294: retries++, then the delay
                      /\ tasks' = [tasks EXCEPT ![i].pc = "backoff"]
                      /\ UNCHANGED <<loadingPromise, attemptedAutoRefresh>>
     /\ UNCHANGED <<mapVars, isBrowser, sortEngine, flat, lastCall, lastRun, probe>>

\* The request of refreshStockData answers in the loop of task i
RefreshReturns(i) ==
  \E fetch \in FetchOutcomes, failure \in LoadFailures :
     /\ tasks[i].pc = "refreshing"
     /\ drawn(TRUE, fetch, failure)
     /\ \E saved \in {IF fetch.ok
                        THEN saveStocksToCache(fetch.stocks, localStorage, isBrowser, failure)
                        ELSE [memory |-> memoryStockCache, storage |-> localStorage]} :
           \E result \in {IF fetch.ok
                            THEN loadStocksFromCache(saved.memory, saved.storage, isBrowser)
                            ELSE [isNull |-> TRUE, stocks |-> <<>>, memory |-> saved.memory]} :
              /\ memoryStockCache' = result.memory
              /\ localStorage' = saved.storage
              /\ IF ~result.isNull \/ tasks[i].retries + 1 >= maxRetries
                 THEN \* lines 276-282 and lines 297-300
                      /\ attemptedAutoRefresh' = TRUE
                      /\ loadingPromise' = NoPromise
                      /\ tasks' = settled(i, result)
                 ELSE \* lines 288-294: retries++, then the delay
                      /\ tasks' = [tasks EXCEPT ![i].pc = "backoff", ![i].retries = @ + 1]
                      /\ UNCHANGED <<loadingPromise, attemptedAutoRefresh>>
     /\ UNCHANGED <<mapVars, isBrowser, sortEngine, flat, lastCall, lastRun, probe>>

\* The delay of line 291 is over: retryDelay *= 1.5 and the next attempt of
\* the loop
BackoffElapses(i) ==
  /\ tasks[i].pc = "backoff"
  /\ tasks' = [tasks EXCEPT ![i].pc = "refreshing",
                           ![i].retryDelay = (@ * 3) \div 2]
  /\ UNCHANGED <<mapVars, cacheVars, isBrowser, sortEngine, flat, lastCall, lastRun,
                 loadingPromise, attemptedAutoRefresh, probe>>

\* the tasks whose resolution is suspended at one of its awaits
resolvingTasks == {i \in Tasks : tasks[i].pc \in {"extracting", "fetching", "matched"}}

\* the resolution of task i returns or throws: the resolutions still
\* suspended have seen another one end
returns(i) ==
  [j \in Tasks |->
     IF j = i THEN IdleTask
     ELSE IF j \in resolvingTasks THEN [tasks[j] EXCEPT !.sawReturn = TRUE]
     ELSE tasks[j]]

\* matchStockSymbols has its corpus and runs to its return: the resolution
\* of task i stays suspended at "await matchStockSymbols(entities)"
\* (extract-tickers.ts line 21) until the promise is delivered
MatchedSuspended(i, t, got) ==
  \* the results of fuse.search are drawn only for the calls that search
  \E picks \in IF matched[t][got.stocks][<<>>].searched
                THEN FuzzyPicks(Len(got.stocks)) ELSE {<<>>} :
     \E m \in {matched[t][got.stocks][picks]} :
        /\ tasks' = [tasks EXCEPT ![i].pc = "matched", ![i].t = t, ![i].match = m,
                                 ![i].corpus = [n \in 1..Len(got.stocks) |-> got.stocks[n].symbol]]
        /\ UNCHANGED <<mapVars, lastCall, lastRun>>

\* extractTickers(query, geography, language) up to its first await, the
\* request to the entity-extraction oracle
CallExtractTickers(i) ==
  \E geography \in LoadGeographies :
     /\ tasks[i].pc = "idle"
     /\ tasks' = [tasks EXCEPT ![i] = [IdleTask EXCEPT !.pc = "extracting",
                                                       !.geography = geography]]
     /\ UNCHANGED <<mapVars, cacheVars, isBrowser, sortEngine, flat, lastCall, lastRun,
                    loadingPromise, attemptedAutoRefresh, probe>>

\* The oracle answers the resolution of task i, which goes on to the end or
\* to the await of fetchStockData (match-stock-symbols.ts line 15)
OracleReturns(i) ==
  \E t \in 0..Len(ResolutionTexts) :
     /\ tasks[i].pc = "extracting"
     /\ UNCHANGED <<isBrowser, sortEngine, flat, loadingPromise, attemptedAutoRefresh, probe>>
     /\ IF t = 0
        THEN /\ Thrown(S_apiError)
             /\ tasks' = returns(i)
             /\ UNCHANGED <<mapVars, cacheVars, lastCall>>
        ELSE IF Len(ResolutionEntities[t]) = 0
        THEN /\ ReturnedEmpty(FALSE, <<>>, <<>>)
             /\ tasks' = returns(i)
             /\ UNCHANGED <<mapVars, cacheVars, lastCall>>
        ELSE \E first \in {loadStocksFromCache(memoryStockCache, localStorage, isBrowser)} :
                /\ memoryStockCache' = first.memory
                /\ UNCHANGED localStorage
                /\ IF first.isNull
                   THEN /\ tasks' = [tasks EXCEPT ![i].pc = "fetching", ![i].t = t]
                        /\ UNCHANGED <<mapVars, lastCall, lastRun>>
                   ELSE MatchedSuspended(i, t, first)

\* /api/stock-list answers fetchStockData in the resolution of task i, which
\* goes on to its end
FetchReturns(i) ==
  \E fetch \in FetchOutcomes, failure \in LoadFailures :
     /\ tasks[i].pc = "fetching"
     /\ drawn(TRUE, fetch, failure)
     /\ UNCHANGED <<isBrowser, sortEngine, flat, loadingPromise, attemptedAutoRefresh, probe>>
     /\ \E got \in {corpusAfterFetch(memoryStockCache, localStorage, isBrowser,
                                       fetch, failure)} :
           /\ memoryStockCache' = got.memory
           /\ localStorage' = got.storage
           /\ IF got.thrown
              THEN /\ Thrown(IF got.fetched THEN S_loadFailed ELSE S_apiError)
                   /\ tasks' = returns(i)
                   /\ UNCHANGED <<mapVars, lastCall>>
              ELSE MatchedSuspended(i, tasks[i].t, got)

\* The promise of matchStockSymbols is delivered to the resolution of task
\* i, which runs Steps 3 to 5 without another await and returns its groups
MatchReturns(i) ==
  /\ tasks[i].pc = "matched"
  /\ tasks' = returns(i)
  /\ UNCHANGED <<cacheVars, isBrowser, sortEngine, flat, loadingPromise,
                 attemptedAutoRefresh, probe>>
  /\ IF Len(tasks[i].match.matchedStocks) = 0
     THEN /\ ReturnedEmpty(TRUE, tasks[i].corpus, tasks[i].match.collected)
          /\ UNCHANGED <<mapVars, lastCall>>
     ELSE Prioritized(tasks[i].t, tasks[i].geography, tasks[i].corpus, tasks[i].match)

NextLoad ==
  \/ \E i \in Tasks : CallLoadStocksWithRetry(i)
  \/ \E i \in Tasks : RefreshReturns(i)
  \/ \E i \in Tasks : BackoffElapses(i)
  \/ \E i \in Tasks : CallExtractTickers(i)
  \/ \E i \in Tasks : OracleReturns(i)
  \/ \E i \in Tasks : FetchReturns(i)
  \/ \E i \in Tasks : MatchReturns(i)
  \/ CacheExpires

SpecLoad == InitLoad /\ [][NextLoad]_vars

\* The resolutions alone, overlapping at their awaits, in the page that
\* starts them (their requests go to the relative URLs of the page's origin)
InitOverlap ==
  /\ tickerToEntityMap = NoMap
  /\ tickerDebugMap = NoMap
  /\ memoryStockCache = NullCache
  /\ localStorage = EmptyStorage
  /\ isBrowser = TRUE
  /\ sortEngine = "binary"
  /\ flat = <<>>
  /\ lastCall = NoCall
  /\ lastRun = NoRun
  /\ LoaderIdle
  /\ probe = NoProbe

NextOverlap ==
  \/ \E i \in Tasks : CallExtractTickers(i)
  \/ \E i \in Tasks : OracleReturns(i)
  \/ \E i \in Tasks : FetchReturns(i)
  \/ \E i \in Tasks : MatchReturns(i)

SpecOverlap == InitOverlap /\ [][NextOverlap]_vars

\* The loads alone, with the cache cleared or expiring between them.  Every
\* request of refreshStockData is answered or fails, and every timer of
\* setTimeout fires: the steps that end an await are weakly fair.
NextRetry ==
  \/ \E i \in Tasks : CallLoadStocksWithRetry(i)
  \/ \E i \in Tasks : RefreshReturns(i)
  \/ \E i \in Tasks : BackoffElapses(i)
  \/ ClearStockCache
  \/ CacheExpires

SpecRetry ==
  /\ InitLoad
  /\ [][NextRetry]_vars
  /\ \A i \in Tasks : WF_vars(RefreshReturns(i)) /\ WF_vars(BackoffElapses(i))

----------------------------------------------------------------------------
(* Direct calls of the pure functions of the parser and of the taxonomy    *)

\* the tokens of one oracle answer
MaxTokens == 2

ProbeNames == {<<"A","l","i","b","a","b","a">>, <<"B","A","B","A">>, <<"A"," ","[","H","K","]"," ","B">>}

ProbeGaps == {<<>>, <<" ">>}

\* the exchanges EX1/EX2 of the dual mentions
ProbeExchangePairs == {<<S_HKEX, S_NYSE>>, <<S_NYSE, S_NYSE>>}

ProbeTickers == {<<"A","A","P","L">>, <<"9","9","8","8",".","H","K">>}

\* NAME [EX1/EX2] written out
dualToken(name, gap, exchange1, exchange2) ==
  name \o gap \o <<"[">> \o exchange1 \o <<"/">> \o exchange2 \o <<"]">>

\* the tokens an oracle answer is made of: dual mentions and bare tickers
ProbeTokens ==
  {[kind |-> "dual", name |-> name, exchange1 |-> pair[1], exchange2 |-> pair[2],
    token |-> dualToken(name, gap, pair[1], pair[2])] :
     name \in ProbeNames, gap \in ProbeGaps, pair \in ProbeExchangePairs}
  \cup {[kind |-> "ticker", name |-> ticker, exchange1 |-> <<>>, exchange2 |-> <<>>,
         token |-> ticker] : ticker \in ProbeTickers}

ProbeDelimiters == {<<",", " ">>, <<";">>}

ProbeTokenLists == UNION {[1..n -> ProbeTokens] : n \in 1..MaxTokens}

\* the texts findCanonicalExchangeKey is called with: the keys, their
\* variants, other names, and their lower-case and upper-case spellings
ProbeExchangeNames ==
  LET spellings(names) == names \cup {toLowerCase(n) : n \in names}
                                \cup {toUpperCase(n) : n \in names}
  IN spellings({EXCHANGE_MAPPINGS[i].key : i \in 1..Len(EXCHANGE_MAPPINGS)}
               \cup UNION {{EXCHANGE_MAPPINGS[i].variants[v] :
                              v \in 1..Len(EXCHANGE_MAPPINGS[i].variants)} :
                           i \in 1..Len(EXCHANGE_MAPPINGS)}
               \cup ObjectPrototypeNames
               \cup {<<"X","Y","Z">>, S_all})

\* the securities isStockFromExchange is called with
ProbeStocks ==
  {[symbol |-> symbol, name |-> <<"A","l","i","b","a","b","a"," ","G","r","o","u","p">>, exchange |-> exchange,
    exchangeShortName |-> exchangeShortName] :
     symbol \in {<<"9","9","8","8",".","H","K">>, <<"9","9","8","8">>, <<"B","A","B","A">>, <<"0","7","0","0",".","h","k">>},
     exchange \in {<<>>, S_HKSE, S_HKEX, <<"H","o","n","g"," ","K","o","n","g"," ","S","t","o","c","k"," ","E","x","c","h","a","n","g","e">>, <<"N","e","w"," ","Y","o","r","k"," ","S","t","o","c","k"," ","E","x","c","h","a","n","g","e">>, <<"h","k","s","e">>},
     exchangeShortName \in {<<>>, S_HKSE, S_HKEX, S_NYSE, <<"H","K">>, <<"S","E","H","K">>, <<"h","k","e","x">>}}

\* the exchange keys isStockFromExchange is called with
ProbeExchangeKeys == {S_HKEX, S_HKSE, S_NYSE, <<"h","k","s","e">>, <<"H","K">>, <<"S","E","H","K">>}

InitPure ==
  /\ tickerToEntityMap = NoMap
  /\ tickerDebugMap = NoMap
  /\ memoryStockCache = NullCache
  /\ localStorage = EmptyStorage
  /\ isBrowser = FALSE
  /\ sortEngine = "binary"
  /\ flat = <<>>
  /\ lastCall = NoCall
  /\ lastRun = NoRun
  /\ LoaderIdle
  /\ probe = NoProbe

\* a behaviour is one call: the functions read and write no module state
pureUnchanged ==
  /\ probe = NoProbe
  /\ UNCHANGED <<mapVars, cacheVars, isBrowser, sortEngine, flat, lastCall, lastRun, loadVars>>

\* parseExtractedEntities(entitiesText) on an answer of one or more tokens
ParseEntities ==
  \E tokens \in ProbeTokenLists, delimiter \in ProbeDelimiters :
     /\ pureUnchanged
     /\ Len(tokens) = 1 => delimiter = <<";">>
     /\ \E entitiesText \in {joinWith([k \in 1..Len(tokens) |-> tokens[k].token], delimiter)} :
           probe' = [op |-> "parseExtractedEntities", tokens |-> tokens,
                     entitiesText |-> entitiesText,
                     entities |-> parseExtractedEntities(entitiesText)]

\* findCanonicalExchangeKey, called with a text and with a text that differs
\* from it in letter case only
FindCanonicalExchangeKey ==
  \E exchangeName \in ProbeExchangeNames, respelled \in ProbeExchangeNames :
     /\ pureUnchanged
     /\ toUpperCase(respelled) = toUpperCase(exchangeName)
     /\ probe' = [op |-> "findCanonicalExchangeKey", exchangeName |-> exchangeName,
                  respelled |-> respelled,
                  key |-> findCanonicalExchangeKey(exchangeName),
                  respelledKey |-> findCanonicalExchangeKey(respelled)]

\* isStockFromExchange, called for one security with two exchange keys
IsStockFromExchange ==
  \E stock \in ProbeStocks, exchangeKey \in ProbeExchangeKeys, otherKey \in ProbeExchangeKeys :
     /\ pureUnchanged
     /\ probe' = [op |-> "isStockFromExchange", stock |-> stock,
                  exchangeKey |-> exchangeKey, otherKey |-> otherKey,
                  result |-> isStockFromExchange(stock, exchangeKey),
                  otherResult |-> isStockFromExchange(stock, otherKey)]

NextPure ==
  \/ ParseEntities
  \/ FindCanonicalExchangeKey
  \/ IsStockFromExchange

SpecPure == InitPure /\ [][NextPure]_vars

----------------------------------------------------------------------------
(* Properties of prioritizeByGeography, checked under SpecPrio             *)

\* the stocks of the latest call that Step 0 re-derives for its k-th entity
candidatesFor(k) == matchingStocksOf(lastCall.stocks, normalizeName(lastCall.entities[k]))

\* those of them on the exchange the k-th entity names
hintCandidates(k) ==
  SelectSeq(candidatesFor(k), LAMBDA s : isStockFromExchange(s, lastCall.entities[k].exchange))

\* the k-th entity names no exchange, or no candidate of it is on that exchange
hintAbsentOrUnsatisfied(k) ==
  lastCall.entities[k].exchange = <<>> \/ Len(hintCandidates(k)) = 0

undotted(symbol) == ~includes(symbol, <<".">>)

\* the selection reason recorded for the ticker the k-th entity pushed
reasonOf(k) == tickerDebugMap[lastCall.pushed[k][1]].selectionReason

CallEntities == IF lastCall.called THEN 1..Len(lastCall.entities) ELSE {}

\* C1: in a call with a non-empty entity list every entity contributes at
\* most one ticker (the returned list is no longer than the entity list), an
\* entity contributes none only if Step 0 re-derives no candidate for it, and
\* an entity with a re-derived candidate contributes exactly one.
C1_OneTickerPerEntity ==
  (lastCall.called /\ Len(lastCall.entities) > 0) =>
     /\ Len(lastCall.returned) <= Len(lastCall.entities)
     /\ Len(lastCall.pushed) = Len(lastCall.entities)
     /\ \A k \in CallEntities :
          /\ Len(lastCall.pushed[k]) <= 1
          /\ (Len(lastCall.pushed[k]) = 0 => Len(candidatesFor(k)) = 0)
          /\ (Len(candidatesFor(k)) > 0 => Len(lastCall.pushed[k]) = 1)

\* C1 witness: a call with two entities, the first with two candidates, in
\* which each entity contributed exactly one ticker
C1_Witness ==
  /\ lastCall.called
  /\ Len(lastCall.entities) = 2
  /\ Len(candidatesFor(1)) = 2
  /\ Len(lastCall.returned) = 2
  /\ \A k \in CallEntities : Len(lastCall.pushed[k]) = 1

\* C2: an entity with an exchange hint that at least one of its candidates
\* satisfies gets a ticker of a candidate satisfying the hint, under every
\* geography.
C2_HintedExchangeWins ==
  \A k \in CallEntities :
     (lastCall.entities[k].exchange # <<>> /\ Len(hintCandidates(k)) > 0)
        => /\ Len(lastCall.pushed[k]) = 1
           /\ lastCall.pushed[k][1] \in symbolsOf(hintCandidates(k))

\* C2 witness: geography us, the entity hints at HKEX, its first candidate is
\* a US listing off the hinted exchange, and the HK listing was selected
C2_Witness ==
  /\ lastCall.called
  /\ lastCall.geography = S_us
  /\ \E k \in CallEntities :
        /\ lastCall.entities[k].exchange = S_HKEX
        /\ Len(candidatesFor(k)) = 2
        /\ ~isStockFromExchange(candidatesFor(k)[1], S_HKEX)
        /\ inPreferredExchange(candidatesFor(k)[1], S_us)
        /\ lastCall.pushed[k] = <<candidatesFor(k)[2].symbol>>

\* the tickers the latest call pushed
pushedTickers ==
  UNION {{lastCall.pushed[k][i] : i \in 1..Len(lastCall.pushed[k])} :
         k \in 1..Len(lastCall.pushed)}

\* the last entity of the latest call that pushed ticker t
lastPusherOf(t) ==
  lastCall.entities[CHOOSE k \in 1..Len(lastCall.pushed) :
     /\ \E i \in 1..Len(lastCall.pushed[k]) : lastCall.pushed[k][i] = t
     /\ \A j \in (k + 1)..Len(lastCall.pushed) :
          \A i \in 1..Len(lastCall.pushed[j]) : lastCall.pushed[j][i] # t]

\* C5: after any sequence of calls the keys of both maps are exactly the
\* tickers the latest call pushed, and every value is the one the latest call
\* wrote for that ticker; the maps are empty after a call without entities
\* or without a selection.
C5_MapsOfLatestCallOnly ==
  /\ DOMAIN tickerToEntityMap = pushedTickers
  /\ DOMAIN tickerDebugMap = pushedTickers
  /\ \A t \in pushedTickers :
       /\ tickerToEntityMap[t] = lastPusherOf(t)
       /\ tickerDebugMap[t].ticker = t
       /\ tickerDebugMap[t].entity = lastPusherOf(t).name
       /\ tickerDebugMap[t].exchange = debugExchange(lastPusherOf(t), lastCall.geography)

\* C5 witness: the maps held entries when the latest call began, that call
\* had entities and selected nothing, and both maps are empty
C5_Witness ==
  /\ lastCall.called
  /\ lastCall.hadEntries
  /\ Len(lastCall.entities) > 0
  /\ lastCall.returned = <<>>
  /\ tickerToEntityMap = NoMap
  /\ tickerDebugMap = NoMap

S_fuzzyReason == <<"Fuzzy match - no exact match found">>

\* the k-th entity is a numeric code with a leading zero, no symbol of the
\* flat list contains the code, and some symbol contains the code without
\* its leading zeros
leadingZeroCase(k) ==
  \E code \in {normalizeName(lastCall.entities[k])} :
     /\ isAllDigits(code)
     /\ code[1] = "0"
     /\ Len(stripLeadingZeros(code)) > 0
     /\ \A i \in 1..Len(lastCall.stocks) : ~includes(lastCall.stocks[i].symbol, code)
     /\ \E i \in 1..Len(lastCall.stocks) :
           includes(lastCall.stocks[i].symbol, stripLeadingZeros(code))

\* the code of the k-th entity is one Step 0 also matches without its
\* leading zeros (lines 226-232)
strippedInStepZero(k) ==
  \E code \in {normalizeName(lastCall.entities[k])} :
     startsWith(code, <<"0", "0">>) /\ Len(code) >= 4

\* C7 as stated: a numeric entity with leading zeros, whose code no symbol
\* contains while symbols contain the zero-stripped code, is resolved by
\* the numeric fallback, with the selection reason "Fuzzy match - no exact
\* match found".
C7_Original ==
  \A k \in CallEntities :
     leadingZeroCase(k) =>
        /\ Len(lastCall.pushed[k]) = 1
        /\ Len(candidatesFor(k)) = 0
        /\ reasonOf(k) = S_fuzzyReason

\* C7 amended: such an entity is resolved by the numeric fallback, with the
\* fuzzy selection reason, when its code does not start with "00" or is
\* shorter than four characters; a code of four or more characters starting
\* with "00" (such as 00943) is a Step 0 candidate match through its
\* zero-stripped form, and is resolved by the regular cascade to a symbol
\* containing the stripped code, with another selection reason.
C7_LeadingZeroCodes ==
  \A k \in CallEntities :
     leadingZeroCase(k) =>
        /\ Len(lastCall.pushed[k]) = 1
        /\ IF strippedInStepZero(k)
           THEN /\ Len(candidatesFor(k)) > 0
                /\ reasonOf(k) # S_fuzzyReason
                /\ includes(lastCall.pushed[k][1],
                            stripLeadingZeros(normalizeName(lastCall.entities[k])))
           ELSE /\ Len(candidatesFor(k)) = 0
                /\ reasonOf(k) = S_fuzzyReason

\* C7 witness: the entity 00943 against a list holding 0943.HK, resolved to
\* it with a selection reason that is not the fuzzy one
C7_Witness ==
  /\ lastCall.called
  /\ \E k \in CallEntities :
        /\ lastCall.entities[k].name = <<"0","0","9","4","3">>
        /\ leadingZeroCase(k)
        /\ lastCall.pushed[k] = <<<<"0","9","4","3",".","H","K">>>>
        /\ reasonOf(k) # S_fuzzyReason

\* the candidates of the k-th entity that isStockFromExchange places on a
\* Hong Kong exchange
hkListed(k) ==
  SelectSeq(candidatesFor(k),
            LAMBDA s : isStockFromExchange(s, S_HKEX) \/ isStockFromExchange(s, S_HKSE))

\* C8 as stated: with geography hk and the hint absent or unsatisfied, an
\* entity with a candidate listed on a Hong Kong exchange gets a ticker
\* ending in ".HK".
C8_Original ==
  lastCall.geography = S_hk =>
     \A k \in CallEntities :
        (hintAbsentOrUnsatisfied(k) /\ Len(hkListed(k)) > 0)
           => /\ Len(lastCall.pushed[k]) = 1
              /\ endsWith(lastCall.pushed[k][1], S_dotHK)

\* C8 amended: with geography hk and the hint absent or unsatisfied, an
\* entity with a candidate listed on a Hong Kong exchange gets the ticker of
\* such a candidate, and that ticker ends in ".HK" whenever the symbol of at
\* least one of these candidates does.
C8_HongKongSuffixWhenAvailable ==
  lastCall.geography = S_hk =>
     \A k \in CallEntities :
        (hintAbsentOrUnsatisfied(k) /\ Len(hkListed(k)) > 0)
           => /\ Len(lastCall.pushed[k]) = 1
              /\ lastCall.pushed[k][1] \in symbolsOf(hkListed(k))
              /\ (\E s \in symbolsOf(hkListed(k)) : endsWith(s, S_dotHK))
                    => endsWith(lastCall.pushed[k][1], S_dotHK)

\* C8 witness: geography hk, the first candidate is a Hong Kong listing
\* whose symbol has no ".HK", the second one has it and was selected
C8_Witness ==
  /\ lastCall.called
  /\ lastCall.geography = S_hk
  /\ \E k \in CallEntities :
        /\ hintAbsentOrUnsatisfied(k)
        /\ Len(hkListed(k)) = 2
        /\ ~endsWith(hkListed(k)[1].symbol, S_dotHK)
        /\ endsWith(hkListed(k)[2].symbol, S_dotHK)
        /\ lastCall.pushed[k] = <<hkListed(k)[2].symbol>>

\* the stock of the flat list the k-th entity's ticker is the symbol of
selectedStock(k) ==
  CHOOSE s \in {candidatesFor(k)[i] : i \in 1..Len(candidatesFor(k))} :
     s.symbol = lastCall.pushed[k][1]

\* a and b tie in what the Step 5 comparator reads before the geography
tiedBeforeGeography(a, b, normalizedName) ==
  /\ fallbackScore(a, normalizedName) = fallbackScore(b, normalizedName)
  /\ (toLowerCase(a.name) = normalizedName) = (toLowerCase(b.name) = normalizedName)

\* C9: with geography us and the hint absent or unsatisfied, if a candidate
\* on the preferred US exchanges has an undotted symbol the selected ticker
\* is undotted and of such a candidate; and when no candidate is on a
\* preferred exchange, a dotted symbol is never selected while an undotted
\* candidate ties with it in score and exact-name match.
C9_UndottedPreferredForUS ==
  lastCall.geography = S_us =>
     \A k \in CallEntities :
        (hintAbsentOrUnsatisfied(k) /\ Len(candidatesFor(k)) > 0) =>
           \E preferred \in {stocksInPreferredExchanges(candidatesFor(k), S_us)} :
              /\ (\E s \in symbolsOf(preferred) : undotted(s))
                    => /\ lastCall.pushed[k][1] \in symbolsOf(preferred)
                       /\ undotted(lastCall.pushed[k][1])
              /\ (Len(preferred) = 0 /\ ~undotted(lastCall.pushed[k][1]))
                    => \A i \in 1..Len(candidatesFor(k)) :
                          undotted(candidatesFor(k)[i].symbol)
                             => ~tiedBeforeGeography(candidatesFor(k)[i], selectedStock(k),
                                                     normalizeName(lastCall.entities[k]))

\* C9 witness: geography us, the candidates are a dotted and then an
\* undotted symbol of the preferred exchanges, and the undotted one was
\* selected
C9_Witness ==
  /\ lastCall.called
  /\ lastCall.geography = S_us
  /\ \E k \in CallEntities :
        /\ hintAbsentOrUnsatisfied(k)
        /\ Len(candidatesFor(k)) = 2
        /\ Len(stocksInPreferredExchanges(candidatesFor(k), S_us)) = 2
        /\ ~undotted(candidatesFor(k)[1].symbol)
        /\ undotted(candidatesFor(k)[2].symbol)
        /\ lastCall.pushed[k] = <<candidatesFor(k)[2].symbol>>

----------------------------------------------------------------------------
(* Properties of extractTickers, checked under SpecPipeline                *)

\* the tickers in the groups the latest resolution returned
groupedTickers ==
  UNION {{lastRun.groups[g].tickers[i] : i \in 1..Len(lastRun.groups[g].tickers)} :
         g \in 1..Len(lastRun.groups)}

\* C3: every ticker in a group a resolution returned has an entry in the
\* entity map and one in the debug map, and both are the entries the
\* prioritizer call of that resolution wrote for the ticker.
C3_GroupedTickersHaveEntries ==
  \A t \in groupedTickers :
     /\ lastRun.prioritized
     /\ t \in pushedTickers
     /\ t \in DOMAIN tickerToEntityMap
     /\ t \in DOMAIN tickerDebugMap
     /\ tickerToEntityMap[t] = lastPusherOf(t)
     /\ tickerDebugMap[t].ticker = t
     /\ tickerDebugMap[t].entity = lastPusherOf(t).name
     /\ tickerDebugMap[t].exchange = debugExchange(lastPusherOf(t), lastCall.geography)

\* C3 witness: a resolution under geography hk that began with entries of an
\* earlier resolution in the maps and returned a group of two tickers
C3_Witness ==
  /\ lastRun.prioritized
  /\ lastCall.hadEntries
  /\ lastCall.geography = S_hk
  /\ \E g \in 1..Len(lastRun.groups) : Len(lastRun.groups[g].tickers) = 2
  /\ groupedTickers \subseteq DOMAIN tickerDebugMap

\* the tickers the entities of the latest call with the original text pushed
pushedFor(originalText) ==
  concatAll([k \in 1..Len(lastCall.entities) |->
               IF originalTextOf(lastCall.entities[k]) = originalText
               THEN lastCall.pushed[k] ELSE <<>>])

\* C4 as stated: the groups of a resolution are those of the original texts
\* (or names) of the entities that produced a ticker, and the group of a text
\* holds the tickers the entities with that text produced, also when two
\* entities with different texts resolve to the same symbol.
C4_Original ==
  lastRun.prioritized =>
     /\ {lastRun.groups[g].originalText : g \in 1..Len(lastRun.groups)}
          = {originalTextOf(lastCall.entities[k]) :
               k \in {j \in CallEntities : Len(lastCall.pushed[j]) > 0}}
     /\ \A g \in 1..Len(lastRun.groups) :
          lastRun.groups[g].tickers = pushedFor(lastRun.groups[g].originalText)

\* the k-th and the next entity of the latest call are the two entities of
\* one mention NAME [EX1/EX2]
dualMention(k) ==
  /\ k + 1 <= Len(lastCall.entities)
  /\ lastCall.entities[k].originalText = lastCall.entities[k + 1].originalText
  /\ lastCall.entities[k].name = lastCall.entities[k + 1].name
  /\ lastCall.entities[k].exchange # <<>>
  /\ lastCall.entities[k + 1].exchange # <<>>
  /\ bracketMatch(lastCall.entities[k].originalText, dualBracketEnd).found

\* C6 as stated: a mention NAME [EX1/EX2] with a candidate on EX1 and one on
\* EX2 resolves, under every geography, to exactly one group with the
\* bracketed text, holding two tickers, the first of a candidate on EX1 and
\* the second of a candidate on EX2.
C6_Original ==
  lastRun.prioritized =>
     \A k \in CallEntities :
        (dualMention(k) /\ Len(hintCandidates(k)) > 0 /\ Len(hintCandidates(k + 1)) > 0)
           => /\ Cardinality({g \in 1..Len(lastRun.groups) :
                    lastRun.groups[g].originalText = lastCall.entities[k].originalText}) = 1
              /\ \A g \in 1..Len(lastRun.groups) :
                    lastRun.groups[g].originalText = lastCall.entities[k].originalText
                       => /\ Len(lastRun.groups[g].tickers) = 2
                          /\ lastRun.groups[g].tickers[1] \in symbolsOf(hintCandidates(k))
                          /\ lastRun.groups[g].tickers[2] \in symbolsOf(hintCandidates(k + 1))

\* the symbols of the corpus of the service
FullCorpus == [i \in 1..Len(RawCatalog) |-> RawCatalog[i].symbol]

\* C10 as stated: the matching loop of a resolution runs only against the
\* full corpus; when the fetch fails or returns no securities, or the
\* persisted cache holds only some of the saved chunks, the resolution
\* throws instead.
C10_Original ==
  lastRun.matched => (lastRun.outcome = "groups" /\ lastRun.corpus = FullCorpus)

\* the number of tickers in the groups the latest resolution returned
groupedCount ==
  Len(concatAll([g \in 1..Len(lastRun.groups) |-> lastRun.groups[g].tickers]))

\* C11: every extractTickers call either returns its groups, complete (all
\* the tickers the prioritizer returned, or none when it ended before the
\* prioritizer), or throws the Error "Failed to extract tickers" and returns
\* no group; the Error thrown inside never reaches the caller otherwise.
C11_GroupsOrGenericError ==
  lastRun.called =>
     \/ /\ lastRun.outcome = "groups"
        /\ lastRun.error = <<>>
        /\ IF lastRun.prioritized
           THEN /\ groupedCount = Len(lastCall.returned)
                /\ \A i \in 1..Len(lastCall.returned) : lastCall.returned[i] \in groupedTickers
           ELSE lastRun.groups = <<>>
     \/ /\ lastRun.outcome = "error"
        /\ lastRun.error = S_failedToExtract
        /\ lastRun.groups = <<>>

\* C11 witness: after a resolution that returned groups, one in which the
\* corpus could not be loaded after the fetch threw the generic Error
C11_Witness ==
  /\ lastRun.outcome = "error"
  /\ lastRun.cause = S_loadFailed
  /\ lastRun.error = S_failedToExtract
  /\ tickerToEntityMap # NoMap

----------------------------------------------------------------------------
(* Concurrent loads of the corpus, checked under SpecLoad                  *)

\* Claim C12, as the specification states it: while a load of the corpus is
\* in flight every other caller that needs the corpus awaits it, so at most
\* one call at a time is loading the corpus itself, whatever the
\* interleaving of loadStocksWithRetry calls and resolutions.
C12_Original == Cardinality(loadingTasks) <= 1

----------------------------------------------------------------------------
(* The matcher and the grouping, checked under SpecPipeline                *)

\* the symbols matchStockSymbols collected for the k-th entity of the
\* latest resolution, in the order it pushed them
collectedFor(k) == lastRun.collected[k]

\* Claim C13: in the list matchStockSymbols returns, the securities collected
\* for one entity (exact-symbol, then direct, then fuzzy matches) contain no
\* symbol twice, the corpus being a mapping from symbols.
C13_NoSymbolTwicePerEntity ==
  lastRun.matched =>
     \A k \in 1..Len(lastRun.collected) :
        \A a, b \in 1..Len(collectedFor(k)) :
           a # b => collectedFor(k)[a] # collectedFor(k)[b]

\* C13 witness: a resolution in which an entity that carries a symbol has a
\* security that is both its exact match and a direct match of its name, kept
\* once, while another entity collected the same symbol.
C13_Witness ==
  /\ lastRun.prioritized
  /\ \E k \in 1..Len(lastCall.entities) :
        /\ lastCall.entities[k].symbol # <<>>
        /\ \E a \in 1..Len(collectedFor(k)) :
              /\ toUpperCase(collectedFor(k)[a]) = toUpperCase(lastCall.entities[k].symbol)
              /\ collectedFor(k)[a]
                    \in symbolsOf(findDirectMatches(lastCall.entities[k].name, lastCall.stocks))
              /\ \E j \in 1..Len(lastCall.entities) :
                    /\ j # k
                    /\ \E b \in 1..Len(collectedFor(j)) : collectedFor(j)[b] = collectedFor(k)[a]

\* the original text Step 4 and Step 5 associate with the p-th ticker of the
\* prioritized list: that of its entry in the entity map
textAt(p) == originalTextOf(tickerToEntityMap[lastCall.returned[p]])

\* the positions of the prioritized list whose ticker has the original text
positionsOf(originalText) ==
  SelectSeq([p \in 1..Len(lastCall.returned) |-> p], LAMBDA p : textAt(p) = originalText)

\* Claim C14: the groups a resolution returns are in the order in which their
\* original texts first occur in the prioritized ticker list (the text of an
\* occurrence being that of the entity-map entry of the ticker), the tickers
\* of a group are the occurrences with its text in their order in the list,
\* no two groups have the same text, and the groups hold every occurrence of
\* the list exactly once.
C14_GroupsKeepListOrder ==
  lastRun.prioritized =>
     /\ \A p \in 1..Len(lastCall.returned) : lastCall.returned[p] \in DOMAIN tickerToEntityMap
     /\ \A g \in 1..Len(lastRun.groups) :
          /\ Len(positionsOf(lastRun.groups[g].originalText)) > 0
          /\ lastRun.groups[g].tickers
               = [i \in 1..Len(positionsOf(lastRun.groups[g].originalText)) |->
                    lastCall.returned[positionsOf(lastRun.groups[g].originalText)[i]]]
     /\ \A g, h \in 1..Len(lastRun.groups) :
          g < h => /\ lastRun.groups[g].originalText # lastRun.groups[h].originalText
                   /\ positionsOf(lastRun.groups[g].originalText)[1]
                        < positionsOf(lastRun.groups[h].originalText)[1]
     /\ groupedCount = Len(lastCall.returned)

\* C14 witness: a resolution returned two groups, the first of them holding
\* two occurrences of one ticker that are not adjacent in the prioritized
\* list, with the ticker of the second group between them.
C14_Witness ==
  /\ lastRun.prioritized
  /\ Len(lastRun.groups) = 2
  /\ Len(lastCall.returned) = 3
  /\ lastCall.returned[1] = lastCall.returned[3]
  /\ lastRun.groups[1].tickers = <<lastCall.returned[1], lastCall.returned[3]>>
  /\ lastRun.groups[2].tickers = <<lastCall.returned[2]>>

----------------------------------------------------------------------------
(* The parser and the taxonomy, checked under SpecPure                     *)

\* the entities the claims expect for a token
expectedEntities(token) ==
  IF token.kind = "dual"
  THEN <<[name |-> token.name, symbol |-> <<>>, exchange |-> token.exchange1,
          originalText |-> token.token],
         [name |-> token.name, symbol |-> <<>>, exchange |-> token.exchange2,
          originalText |-> token.token]>>
  ELSE <<[name |-> token.token, symbol |-> token.token, exchange |-> <<>>,
          originalText |-> token.token]>>

\* Claim C15: an answer made of tokens NAME [EX1/EX2] parses to two entities
\* per token, in the order of the tokens, both named NAME with the whole
\* token as originalText, the first with exchange EX1 and the second with
\* EX2; none is merged with another of the same name, whatever the
\* exchanges.
C15_DualExchangeTwoEntities ==
  (/\ probe.op = "parseExtractedEntities"
   /\ \A k \in 1..Len(probe.tokens) : probe.tokens[k].kind = "dual") =>
     probe.entities
       = concatAll([k \in 1..Len(probe.tokens) |-> expectedEntities(probe.tokens[k])])

\* C15 witness: an answer of two dual mentions of one name was parsed, the
\* first of them naming one exchange twice, and four entities came out.
C15_Witness ==
  /\ probe.op = "parseExtractedEntities"
  /\ Len(probe.tokens) = 2
  /\ probe.tokens[1].kind = "dual" /\ probe.tokens[2].kind = "dual"
  /\ probe.tokens[1].name = probe.tokens[2].name
  /\ probe.tokens[1].exchange1 = probe.tokens[1].exchange2
  /\ Len(probe.entities) = 4

\* Claim C16: an answer that is one token matching ^[A-Z0-9.]+$ parses to
\* exactly one entity, whose name, symbol and originalText are the token and
\* which has no exchange.
C16_TickerTokenOneEntity ==
  (/\ probe.op = "parseExtractedEntities"
   /\ Len(probe.tokens) = 1
   /\ probe.tokens[1].kind = "ticker") =>
     /\ isTicker(probe.entitiesText)
     /\ Len(probe.entities) = 1
     /\ probe.entities[1].name = probe.entitiesText
     /\ probe.entities[1].symbol = probe.entitiesText
     /\ probe.entities[1].originalText = probe.entitiesText
     /\ probe.entities[1].exchange = <<>>

\* C16 witness: the answer "9988.HK" was parsed.
C16_Witness ==
  /\ probe.op = "parseExtractedEntities"
  /\ probe.entitiesText = <<"9","9","8","8",".","H","K">>
  /\ Len(probe.entities) = 1

\* Claim C17: isStockFromExchange answers the same for the keys HKEX and HKSE
\* for every security; a security whose exchangeShortName is HKSE matches
\* HKEX and one whose exchangeShortName is HKEX matches HKSE.
C17_HongKongKeysInterchangeable ==
  probe.op = "isStockFromExchange" =>
     /\ ({probe.exchangeKey, probe.otherKey} = {S_HKEX, S_HKSE}
           => probe.result = probe.otherResult)
     /\ ((probe.exchangeKey = S_HKEX /\ probe.stock.exchangeShortName = S_HKSE)
           => probe.result)
     /\ ((probe.exchangeKey = S_HKSE /\ probe.stock.exchangeShortName = S_HKEX)
           => probe.result)

\* C17 witness: a security known as HKSE by its exchangeShortName alone was
\* tested against HKEX and against HKSE.
C17_Witness ==
  /\ probe.op = "isStockFromExchange"
  /\ probe.exchangeKey = S_HKEX /\ probe.otherKey = S_HKSE
  /\ probe.stock.exchangeShortName = S_HKSE
  /\ probe.stock.exchange = <<>>
  /\ ~endsWith(toUpperCase(probe.stock.symbol), S_dotHK)
  /\ probe.result /\ probe.otherResult

\* Claim C18, as the specification states it: findCanonicalExchangeKey
\* returns the same result, a key or undefined, for two texts that differ in
\* letter case only.
C18_Original ==
  probe.op = "findCanonicalExchangeKey" => probe.key = probe.respelledKey

----------------------------------------------------------------------------
(* The matcher against Step 0 of the prioritizer, under SpecPipeline       *)

C20_Original ==
  lastRun.called =>
     /\ DOMAIN tickerToEntityMap = (IF lastRun.prioritized THEN pushedTickers ELSE {})
     /\ DOMAIN tickerDebugMap = (IF lastRun.prioritized THEN pushedTickers ELSE {})

----------------------------------------------------------------------------
(* The orders of the branches of prioritizeByGeography, under SpecPrio     *)

\* a.name.toLowerCase() === normalizedName, for the k-th entity
nameExact(stock, k) == toLowerCase(stock.name) = normalizeName(lastCall.entities[k])

\* the symbol ends with "." and the hinted exchange of the k-th entity
hasExchangeSuffix(stock, k) ==
  endsWith(toLowerCase(stock.symbol), <<".">> \o toLowerCase(lastCall.entities[k].exchange))

\* Claim C21, as the specification states it: in the explicit-exchange
\* branch the selected ticker is that of a candidate on the hinted exchange
\* whose symbol is the shortest among the candidates tied with it on the
\* exact name match and on having or lacking the exchange suffix.
C21_Original ==
  \A k \in CallEntities :
     (lastCall.entities[k].exchange # <<>> /\ Len(hintCandidates(k)) > 0) =>
        \E c \in 1..Len(hintCandidates(k)) :
           /\ lastCall.pushed[k] = <<hintCandidates(k)[c].symbol>>
           /\ \A d \in 1..Len(hintCandidates(k)) :
                (/\ nameExact(hintCandidates(k)[d], k) = nameExact(hintCandidates(k)[c], k)
                 /\ hasExchangeSuffix(hintCandidates(k)[d], k)
                      = hasExchangeSuffix(hintCandidates(k)[c], k))
                  => Len(hintCandidates(k)[c].symbol) <= Len(hintCandidates(k)[d].symbol)


\* the k-th entity is resolved by the global branch: candidates exist, no hint
\* is satisfied and the geography is "global"
globalMode(k) ==
  /\ lastCall.geography = S_global
  /\ Len(candidatesFor(k)) > 0
  /\ hintAbsentOrUnsatisfied(k)

\* candidates a and b agree in name tier, dot status and derivative penalty
sameGlobalClass(a, b, k) ==
  /\ nameTierScore(toLowerCase(a.name), normalizeName(lastCall.entities[k]))
       = nameTierScore(toLowerCase(b.name), normalizeName(lastCall.entities[k]))
  /\ undotted(a.symbol) = undotted(b.symbol)
  /\ globalDerivative(toLowerCase(a.name)) = globalDerivative(toLowerCase(b.name))

\* C22: in global mode the ticker selected for an entity is the symbol of a
\* candidate that no other candidate beats on score, and among the candidates
\* equal to it in name tier, dot status and derivative penalty none has a
\* better market-cap rank.
C22_GlobalOrder ==
  \A k \in CallEntities :
     globalMode(k) =>
        \E c \in 1..Len(candidatesFor(k)) :
           /\ lastCall.pushed[k] = <<candidatesFor(k)[c].symbol>>
           /\ \A d \in 1..Len(candidatesFor(k)) :
                /\ globalScore(candidatesFor(k)[d], normalizeName(lastCall.entities[k]))
                     <= globalScore(candidatesFor(k)[c], normalizeName(lastCall.entities[k]))
                /\ sameGlobalClass(candidatesFor(k)[c], candidatesFor(k)[d], k)
                     => getMarketCapRank(candidatesFor(k)[c]) <= getMarketCapRank(candidatesFor(k)[d])

\* C22 witness: a global call in which the selected candidate stands second
\* in the list and wins against the first, of the same name tier, dot status
\* and penalty, on market-cap rank alone.
C22_Witness ==
  \E k \in CallEntities :
     /\ globalMode(k)
     /\ Len(candidatesFor(k)) = 2
     /\ lastCall.pushed[k] = <<candidatesFor(k)[2].symbol>>
     /\ sameGlobalClass(candidatesFor(k)[1], candidatesFor(k)[2], k)
     /\ getMarketCapRank(candidatesFor(k)[2]) < getMarketCapRank(candidatesFor(k)[1])


\* the k-th entity is resolved by the scored fallback of Step 5: several
\* candidates, no satisfied hint, a geography with preferred exchanges and no
\* candidate on one of them
fallbackMode(k) ==
  /\ lastCall.geography # S_global
  /\ Len(GEOGRAPHY_EXCHANGES(lastCall.geography)) > 0
  /\ Len(candidatesFor(k)) > 1
  /\ hintAbsentOrUnsatisfied(k)
  /\ Len(stocksInPreferredExchanges(candidatesFor(k), lastCall.geography)) = 0

\* the Step 5 score with 1000 subtracted for every marker of global mode
scoreWithGlobalMarkers(stock, k) ==
  fallbackScore(stock, normalizeName(lastCall.entities[k]))
  + (IF fallbackDerivative(toLowerCase(stock.name)) THEN 1000 ELSE 0)
  - (IF globalDerivative(toLowerCase(stock.name)) THEN 1000 ELSE 0)

\* C23 as stated: the fallback penalizes every name that global mode
\* penalizes, so the ticker it selects is the symbol of a candidate that no
\* other candidate beats on the score with 1000 subtracted for each name
\* carrying one of the markers etf, etp, tracker, short, long, -1x, -2x, -3x.
C23_Original ==
  \A k \in CallEntities :
     fallbackMode(k) =>
        \E c \in 1..Len(candidatesFor(k)) :
           /\ lastCall.pushed[k] = <<candidatesFor(k)[c].symbol>>
           /\ \A d \in 1..Len(candidatesFor(k)) :
                scoreWithGlobalMarkers(candidatesFor(k)[d], k)
                  <= scoreWithGlobalMarkers(candidatesFor(k)[c], k)


\* the k-th entity is resolved by the numeric fallback: a name of digits only,
\* no re-derived candidate and a non-empty list
numericMode(k) ==
  /\ isAllDigits(normalizeName(lastCall.entities[k]))
  /\ Len(candidatesFor(k)) = 0
  /\ Len(lastCall.stocks) > 0

containsNumber(stock, k) == includes(stock.symbol, normalizeName(lastCall.entities[k]))

\* the ticker the numeric fallback selects for the k-th entity is the symbol
\* of a security that no security tying with it on the number sequence beats
\* on a preferred exchange of the geography, nor, tying there too, on a
\* shorter symbol
honoursGeography(k) ==
  \E c \in 1..Len(lastCall.stocks) :
     /\ lastCall.pushed[k] = <<lastCall.stocks[c].symbol>>
     /\ \A d \in 1..Len(lastCall.stocks) :
          containsNumber(lastCall.stocks[d], k) = containsNumber(lastCall.stocks[c], k) =>
             /\ inPreferredExchange(lastCall.stocks[d], lastCall.geography)
                  => inPreferredExchange(lastCall.stocks[c], lastCall.geography)
             /\ (inPreferredExchange(lastCall.stocks[d], lastCall.geography)
                   = inPreferredExchange(lastCall.stocks[c], lastCall.geography))
                  => Len(lastCall.stocks[c].symbol) <= Len(lastCall.stocks[d].symbol)

\* C24 as stated: the numeric fallback honours the geography for "us", "hk"
\* and "china": among securities tying on containing the number sequence one
\* on a preferred exchange of the geography is chosen over one that is not,
\* and then the shorter symbol.
C24_Original ==
  \A k \in CallEntities :
     (numericMode(k) /\ lastCall.geography \in {S_us, S_hk, S_china}) => honoursGeography(k)


----------------------------------------------------------------------------
(* The retry loop of loadStocksWithRetry, checked under SpecRetry          *)

\* the delay of the wait after the n-th failed attempt: 1000 ms, then 1.5
\* times the delay before
delayOfWait(n) == (initialRetryDelay * 3^(n - 1)) \div 2^(n - 1)

\* the attempt in progress is at most the maxRetries-th; a wait follows a
\* failed attempt that is not the last, and lasts delayOfWait
boundedAttempts ==
  \A i \in Tasks :
     /\ tasks[i].pc = "refreshing" => tasks[i].retries + 1 <= maxRetries
     /\ tasks[i].pc = "backoff" =>
          /\ 1 <= tasks[i].retries /\ tasks[i].retries < maxRetries
          /\ tasks[i].retryDelay = delayOfWait(tasks[i].retries)

\* the attempt that ends in this step has failed: its request saved nothing,
\* or the cache holds no corpus after it
attemptFailed ==
  \/ memoryStockCache' = memoryStockCache /\ localStorage' = localStorage
  \/ loadStocksFromCache(memoryStockCache', localStorage', isBrowser).isNull

\* the step that ends an attempt of task i: the promise resolves with the
\* corpus the cache then holds, or with null after the last attempt has
\* failed, or the loop goes on after a failed attempt that is not the last
attemptEnds(i) ==
  tasks[i].pc = "refreshing" =>
     \/ tasks'[i].pc = "refreshing"
     \/ /\ tasks'[i].pc = "idle"
        /\ tasks'[i].resolved.settled
        /\ IF tasks'[i].resolved.isNull
           THEN /\ tasks[i].retries + 1 = maxRetries
                /\ attemptFailed
           ELSE /\ ~memoryStockCache'.isNull
                /\ tasks'[i].resolved.stocks
                     = [n \in 1..Len(memoryStockCache'.stocks) |-> memoryStockCache'.stocks[n].symbol]
     \/ /\ tasks'[i].pc = "backoff"
        /\ tasks[i].retries + 1 < maxRetries
        /\ attemptFailed

\* C25: a call of loadStocksWithRetry that finds no cached corpus always
\* settles: it makes at most maxRetries attempts, waits only between two
\* attempts with the delay growing by half each time, resolves with the
\* corpus on the first attempt after which the cache holds one and with null
\* after maxRetries failed attempts, and every call that has not returned
\* eventually has, with its promise resolved.
C25_AlwaysSettles ==
  /\ []boundedAttempts
  /\ [][\A i \in Tasks : attemptEnds(i)]_vars
  /\ \A i \in Tasks :
        (tasks[i].pc # "idle") ~> (tasks[i].pc = "idle" /\ tasks[i].resolved.settled)

\* C25 witness: one call has resolved with null after its last attempt and
\* another with a corpus.
C25_Witness ==
  \E i, j \in Tasks :
     /\ tasks[i].pc = "idle" /\ tasks[i].resolved.settled /\ tasks[i].resolved.isNull
     /\ tasks[j].pc = "idle" /\ tasks[j].resolved.settled /\ Len(tasks[j].resolved.stocks) > 0


----------------------------------------------------------------------------
(* The memory cache after a save, checked under SpecPipeline               *)

\* a step in which saveStocksToCache ran in a browser up to its end: only
\* line 197 of it stores a timestamp
savedInBrowser ==
  /\ isBrowser
  /\ localStorage' # localStorage
  /\ localStorage'.timestamp = <<"fresh">>

\* C26 as stated: once saveStocksToCache has returned, in a browser too, the
\* memory cache holds the enhanced securities, so that the next
\* loadStocksFromCache returns a corpus even when writes of chunks failed.
C26_Original ==
  [][savedInBrowser =>
       /\ ~memoryStockCache'.isNull
       /\ ~loadStocksFromCache(memoryStockCache', localStorage', isBrowser).isNull]_vars


\* C27 as stated: loadingPromise is set only while a load is in progress;
\* once every call has settled, from the cache, after a refresh or after the
\* last attempt, it is null, so that a later call without forceRefresh
\* evaluates the cache again.
C27_Original ==
  (\A i \in Tasks : tasks[i].pc = "idle") => loadingPromise = NoPromise


----------------------------------------------------------------------------
(* The returned list and the explicit tickers, checked under SpecPrio      *)

\* C28 as stated: for every non-empty list of entities the list that
\* prioritizeByGeography returns holds no symbol twice, also when two
\* entities name the same company with different hints or when several
\* entities are numeric.
C28_Original ==
  (lastCall.called /\ Len(lastCall.entities) > 0) =>
     \A a, b \in 1..Len(lastCall.returned) :
        a # b => lastCall.returned[a] # lastCall.returned[b]


\* the candidates of the k-th entity whose symbol is its name, whatever the
\* case
symbolCandidates(k) ==
  SelectSeq(candidatesFor(k),
            LAMBDA stock : toLowerCase(stock.symbol) = normalizeName(lastCall.entities[k]))

\* C30 as stated: an entity that is an explicit ticker symbol without a hint,
\* one of whose candidates carries that symbol, resolves to that symbol under
\* every geography, also when other candidates match it through their name.
C30_Original ==
  \A k \in CallEntities :
     (/\ lastCall.entities[k].symbol # <<>>
      /\ lastCall.entities[k].exchange = <<>>
      /\ Len(symbolCandidates(k)) > 0)
       => lastCall.pushed[k] = <<symbolCandidates(k)[1].symbol>>


----------------------------------------------------------------------------
(* Overlapping resolutions, checked under SpecOverlap                      *)

\* what the prioritizer returns and writes for the matched stocks of the
\* latest resolution when nothing ran before it
\* (prioritizeLoop on empty maps, read from its table)
ranAlone ==
  resolved[sortEngine][lastCall.geography]
          [CHOOSE t \in 1..Len(ResolutionTexts) : ResolutionEntities[t] = lastCall.entities]
          [lastCall.stocks]

\* C29: when resolutions overlap at their awaits, the groups a resolution
\* returns are those it returns when it runs alone on the stocks it matched,
\* and each of them carries the original text of one of its own entities:
\* no group is built from an entry of the entity map that another
\* resolution wrote.
C29_RunsIsolated ==
  lastRun.prioritized =>
     /\ lastRun.groups = groupTickers(ranAlone.tickers, ranAlone.entityMap)
     /\ \A g \in 1..Len(lastRun.groups) :
          \E k \in 1..Len(lastCall.entities) :
             lastRun.groups[g].originalText = originalTextOf(lastCall.entities[k])

\* C29 witness: a resolution has returned its groups while another one, for
\* another text, was suspended after its matching, and the maps hold what
\* the returned one wrote.
C29_Witness ==
  \E i \in Tasks :
     /\ tasks[i].pc = "matched"
     /\ tasks[i].sawReturn
     /\ Len(tasks[i].match.matchedStocks) > 0
     /\ lastRun.prioritized
     /\ Len(lastRun.groups) > 0
     /\ lastCall.entities # ResolutionEntities[tasks[i].t]
     /\ tickerToEntityMap # NoMap

====
